---------------------------- MODULE Spec2Model ----------------------------
(***************************************************************************)
(* A model of bria's accounting and settlement pipeline: the ledger        *)
(* templates CREATE_BATCH / BATCH_CREATED, the wallet balance summary, the *)
(* UTXO repository (bria_utxos), the payout queue, batch construction and  *)
(* the batch_signing job.                                                  *)
(*                                                                         *)
(* Three specifications share the variables:                               *)
(*   SpecLedger  posting of the templates with arbitrary template          *)
(*               parameters (the template engine on its own);              *)
(*   SpecUtxo    the UTXO store on its own: detection and confirmation     *)
(*               with arbitrary values and spent flags;                    *)
(*   Spec        the pipeline: UTXO detection and confirmation, payout     *)
(*               queueing, batch construction inside a database            *)
(*               transaction, and the signing job.                         *)
(***************************************************************************)
EXTENDS Integers, Sequences, FiniteSets, TLC

(***************************************************************************)
(* Bounds of the model.                                                    *)
(***************************************************************************)
MaxSats == 2
MaxFee == 1
MaxPosts == 1
MaxUuid == 2
MaxConfirms == 1
MaxPayouts == 2
MaxEvents == 3
MaxConfigs == 2
MaxAdminCalls == 3
MaxDeliveries == 2

(***************************************************************************)
(* Identifiers.                                                            *)
(***************************************************************************)
\* Option<T>: None is the empty tuple, Some(x) the one-element tuple
None == <<>>

Some(x) == <<x>>

IsSome(o) == o # <<>>

Unwrap(o) == o[1]

\* a fresh Uuid.  Fresh ids are only ever compared for equality, so the n-th id
\* allocated for a subject under a tag stands for it.
Uuid(tag, subject, n) == <<tag, subject, n>>

Wallets == {"w1", "w2"}

Keychains == {"kc1", "kc2"}

\* wallet owning a keychain (single-sig wallet over one keychain)
KeychainWallet(kc) == IF kc = "kc1" THEN "w1" ELSE "w2"

WalletKeychains(w) == {kc \in Keychains : KeychainWallet(kc) = w}

\* (keychain_id, tx_id, vout): the primary key of bria_utxos
UtxoKeys == {<<"kc1", "tx_a", 0>>, <<"kc1", "tx_a", 1>>, <<"kc2", "tx_b", 0>>}

System == "system"

Layers == {"ENCUMBERED", "PENDING", "SETTLED"}

(***************************************************************************)
(* Satoshis and BTC decimals.  A Decimal is kept as an exact fraction      *)
(* num / den; to_btc divides by SATS_PER_BTC and from_btc multiplies.      *)
(***************************************************************************)
SATS_PER_BTC == 100000000

Dec(n, d) == [num |-> n, den |-> d]

DZero == Dec(0, 1)

\* a / b + c / d over the common denominator (b = d in every use)
DAdd(a, b) ==
    IF a.den = b.den THEN Dec(a.num + b.num, a.den)
    ELSE Dec(a.num * b.den + b.num * a.den, a.den * b.den)

DNeg(a) == Dec(0 - a.num, a.den)

DSub(a, b) == DAdd(a, DNeg(b))

DLess(a, b) == a.num * b.den < b.num * a.den

DEq(a, b) == a.num * b.den = b.num * a.den

to_btc(sats) == Dec(sats, SATS_PER_BTC)

from_btc(btc) == (btc.num * SATS_PER_BTC) \div btc.den

(***************************************************************************)
(* Ledger accounts.  An account id is <<owner, name>>: the owner is a      *)
(* wallet or System (the fixed ids of ledger::constants).                  *)
(***************************************************************************)
WalletLedgerAccountIds(w) ==
    [ logical_outgoing_id |-> <<w, "logical_outgoing">>,
      logical_at_rest_id  |-> <<w, "logical_at_rest">>,
      fee_id              |-> <<w, "fee">>,
      onchain_outgoing_id |-> <<w, "onchain_outgoing">>,
      onchain_incoming_id |-> <<w, "onchain_incoming">>,
      onchain_at_rest_id  |-> <<w, "onchain_at_rest">> ]

LOGICAL_OUTGOING_ID == <<System, "LOGICAL_OUTGOING">>
LOGICAL_AT_REST_ID == <<System, "LOGICAL_AT_REST">>
ONCHAIN_FEE_ID == <<System, "ONCHAIN_FEE">>
ONCHAIN_UTXO_OUTGOING_ID == <<System, "ONCHAIN_UTXO_OUTGOING">>
ONCHAIN_UTXO_AT_REST_ID == <<System, "ONCHAIN_UTXO_AT_REST">>
ONCHAIN_UTXO_INCOMING_ID == <<System, "ONCHAIN_UTXO_INCOMING">>
ONCHAIN_INCOMING_ID == <<System, "ONCHAIN_INCOMING">>
ONCHAIN_AT_REST_ID == <<System, "ONCHAIN_AT_REST">>
ONCHAIN_OUTGOING_ID == <<System, "ONCHAIN_OUTGOING">>

(***************************************************************************)
(* Template entries are data: the account id is the expression             *)
(* <<"param", name>> (params.name) or <<"uuid", name>> (a fixed system     *)
(* account), the units are a sum of signed parameters, written as a        *)
(* sequence of <<sign, name>> terms.                                       *)
(***************************************************************************)
P(name) == <<"param", name>>

U(name) == <<"uuid", name>>

EntryInput(entry_type, account_id, direction, layer, units) ==
    [ entry_type |-> entry_type, currency |-> "BTC", account_id |-> account_id,
      direction |-> direction, layer |-> layer, units |-> units ]

(***************************************************************************)
(* CREATE_BATCH: From<CreateBatchParams> for TxParams, and the entries the *)
(* template declares.                                                      *)
(***************************************************************************)
CreateBatchTxParams(ledger_account_ids, total_in_sats, total_spent_sats, fee_sats, reserved_fees, correlation_id) ==
    [ logical_outgoing_account_id |-> ledger_account_ids.logical_outgoing_id,
      logical_at_rest_account_id  |-> ledger_account_ids.logical_at_rest_id,
      onchain_fee_account_id      |-> ledger_account_ids.fee_id,
      onchain_outgoing_account_id |-> ledger_account_ids.onchain_outgoing_id,
      onchain_income_account_id   |-> ledger_account_ids.onchain_incoming_id,
      onchain_at_rest_account_id  |-> ledger_account_ids.onchain_at_rest_id,
      total_in       |-> to_btc(total_in_sats),
      total_spent    |-> to_btc(total_spent_sats),
      fees           |-> to_btc(fee_sats),
      reserved_fees  |-> to_btc(reserved_fees),
      correlation_id |-> correlation_id ]

CreateBatch_entries ==
    << \* LOGICAL
       EntryInput("CREATE_BATCH_LOGICAL_ENCUMBERED_DR", P("logical_outgoing_account_id"),
                  "DEBIT", "ENCUMBERED", << <<"+", "total_spent">> >>),
       EntryInput("CREATE_BATCH_LOGICAL_ENCUMBERED_CR", U("LOGICAL_OUTGOING"),
                  "CREDIT", "ENCUMBERED", << <<"+", "total_spent">> >>),
       EntryInput("CREATE_BATCH_LOGICAL_PENDING_CR", P("logical_outgoing_account_id"),
                  "CREDIT", "PENDING", << <<"+", "total_spent">> >>),
       EntryInput("CREATE_BATCH_LOGICAL_PENDING_DR", U("LOGICAL_OUTGOING"),
                  "DEBIT", "PENDING", << <<"+", "total_spent">> >>),
       EntryInput("CREATE_BATCH_LOGICAL_SETTLED_DR", P("logical_at_rest_account_id"),
                  "DEBIT", "SETTLED", << <<"+", "total_spent">>, <<"+", "fees">> >>),
       EntryInput("CREATE_BATCH_LOGICAL_SETTLED_CR", U("LOGICAL_AT_REST"),
                  "CREDIT", "SETTLED", << <<"+", "total_spent">>, <<"+", "fees">> >>),
       \* FEES
       EntryInput("CREATE_BATCH_FEE_PENDING_DR", P("onchain_fee_account_id"),
                  "DEBIT", "PENDING", << <<"+", "fees">> >>),
       EntryInput("CREATE_BATCH_FEE_PENDING_CR", U("ONCHAIN_FEE"),
                  "CREDIT", "PENDING", << <<"+", "fees">> >>),
       EntryInput("CREATE_BATCH_FEE_ENCUMBERED_CR", P("onchain_fee_account_id"),
                  "CREDIT", "ENCUMBERED", << <<"+", "reserved_fees">> >>),
       EntryInput("CREATE_BATCH_FEE_ENCUMBERED_DR", U("ONCHAIN_FEE"),
                  "DEBIT", "ENCUMBERED", << <<"+", "reserved_fees">> >>),
       \* UTXO
       EntryInput("CREATE_BATCH_UTXO_PENDING_DR", U("ONCHAIN_UTXO_OUTGOING"),
                  "DEBIT", "PENDING", << <<"+", "total_in">>, <<"-", "fees">> >>),
       EntryInput("CREATE_BATCH_UTXO_PENDING_CR", P("onchain_outgoing_account_id"),
                  "CREDIT", "PENDING", << <<"+", "total_in">>, <<"-", "fees">> >>),
       EntryInput("CREATE_BATCH_UTXO_SETTLED_DR", P("onchain_at_rest_account_id"),
                  "DEBIT", "SETTLED", << <<"+", "total_in">> >>),
       EntryInput("CREATE_BATCH_UTXO_SETTLED_CR", U("ONCHAIN_UTXO_AT_REST"),
                  "CREDIT", "SETTLED", << <<"+", "total_in">> >>),
       EntryInput("CREATE_BATCH_UTXO_ENCUMBERED_DR", U("ONCHAIN_UTXO_INCOMING"),
                  "DEBIT", "ENCUMBERED",
                  << <<"+", "total_in">>, <<"-", "fees">>, <<"-", "total_spent">> >>),
       EntryInput("CREATE_BATCH_UTXO_ENCUMBERED_CR", P("onchain_income_account_id"),
                  "CREDIT", "ENCUMBERED",
                  << <<"+", "total_in">>, <<"-", "fees">>, <<"-", "total_spent">> >>) >>

(***************************************************************************)
(* BATCH_CREATED: From<BatchCreatedParams> for TxParams (the amounts come  *)
(* from meta.tx_summary, the correlation id is the batch id), and the      *)
(* entries the template declares.                                          *)
(***************************************************************************)
\* the conversion with the change parameter filled from the summary's fee
BatchCreatedTxParams_ChangeFromFees(ledger_account_ids, encumbered_fees, batch_id, tx_summary) ==
    [ logical_outgoing_account_id |-> ledger_account_ids.logical_outgoing_id,
      logical_at_rest_account_id  |-> ledger_account_ids.logical_at_rest_id,
      onchain_fee_account_id      |-> ledger_account_ids.fee_id,
      onchain_outgoing_account_id |-> ledger_account_ids.onchain_outgoing_id,
      onchain_income_account_id   |-> ledger_account_ids.onchain_incoming_id,
      onchain_at_rest_account_id  |-> ledger_account_ids.onchain_at_rest_id,
      total_utxo_in   |-> to_btc(tx_summary.total_utxo_in_sats),
      change          |-> to_btc(tx_summary.fee_sats),
      fees            |-> to_btc(tx_summary.fee_sats),
      encumbered_fees |-> to_btc(encumbered_fees),
      correlation_id  |-> batch_id ]

BatchCreatedTxParams(ledger_account_ids, encumbered_fees, batch_id, tx_summary) ==
    [ logical_outgoing_account_id |-> ledger_account_ids.logical_outgoing_id,
      logical_at_rest_account_id  |-> ledger_account_ids.logical_at_rest_id,
      onchain_fee_account_id      |-> ledger_account_ids.fee_id,
      onchain_outgoing_account_id |-> ledger_account_ids.onchain_outgoing_id,
      onchain_income_account_id   |-> ledger_account_ids.onchain_incoming_id,
      onchain_at_rest_account_id  |-> ledger_account_ids.onchain_at_rest_id,
      total_utxo_in   |-> to_btc(tx_summary.total_utxo_in_sats),
      change          |-> to_btc(tx_summary.change_sats),
      fees            |-> to_btc(tx_summary.fee_sats),
      encumbered_fees |-> to_btc(encumbered_fees),
      correlation_id  |-> batch_id ]

BatchCreated_entries ==
    << \* LOGICAL
       EntryInput("BATCH_CREATED_LOGICAL_ENCUMBERED_DR", P("logical_outgoing_account_id"),
                  "DEBIT", "ENCUMBERED",
                  << <<"+", "total_utxo_in">>, <<"-", "change">>, <<"-", "fees">> >>),
       EntryInput("BATCH_CREATED_LOGICAL_ENCUMBERED_CR", U("LOGICAL_OUTGOING"),
                  "CREDIT", "ENCUMBERED",
                  << <<"+", "total_utxo_in">>, <<"-", "change">>, <<"-", "fees">> >>),
       EntryInput("BATCH_CREATED_LOGICAL_PENDING_CR", P("logical_outgoing_account_id"),
                  "CREDIT", "PENDING",
                  << <<"+", "total_utxo_in">>, <<"-", "change">>, <<"-", "fees">> >>),
       EntryInput("BATCH_CREATED_LOGICAL_PENDING_DR", U("LOGICAL_OUTGOING"),
                  "DEBIT", "PENDING",
                  << <<"+", "total_utxo_in">>, <<"-", "change">>, <<"-", "fees">> >>),
       EntryInput("BATCH_CREATED_LOGICAL_SETTLED_DR", P("logical_at_rest_account_id"),
                  "DEBIT", "SETTLED", << <<"+", "total_utxo_in">>, <<"-", "change">> >>),
       EntryInput("BATCH_CREATED_LOGICAL_SETTLED_CR", U("LOGICAL_AT_REST"),
                  "CREDIT", "SETTLED", << <<"+", "total_utxo_in">>, <<"-", "change">> >>),
       \* FEES
       EntryInput("BATCH_CREATED_FEE_PENDING_DR", P("onchain_fee_account_id"),
                  "DEBIT", "PENDING", << <<"+", "fees">> >>),
       EntryInput("BATCH_CREATED_FEE_PENDING_CR", U("ONCHAIN_FEE"),
                  "CREDIT", "PENDING", << <<"+", "fees">> >>),
       EntryInput("BATCH_CREATED_FEE_ENCUMBERED_CR", P("onchain_fee_account_id"),
                  "CREDIT", "ENCUMBERED", << <<"+", "encumbered_fees">> >>),
       EntryInput("BATCH_CREATED_FEE_ENCUMBERED_DR", U("ONCHAIN_FEE"),
                  "DEBIT", "ENCUMBERED", << <<"+", "encumbered_fees">> >>),
       \* UTXO
       EntryInput("BATCH_CREATED_UTXO_PENDING_DR", U("ONCHAIN_UTXO_OUTGOING"),
                  "DEBIT", "PENDING", << <<"+", "total_utxo_in">>, <<"-", "fees">> >>),
       EntryInput("BATCH_CREATED_UTXO_PENDING_CR", P("onchain_outgoing_account_id"),
                  "CREDIT", "PENDING", << <<"+", "total_utxo_in">>, <<"-", "fees">> >>),
       EntryInput("BATCH_CREATED_UTXO_SETTLED_DR", P("onchain_at_rest_account_id"),
                  "DEBIT", "SETTLED", << <<"+", "total_utxo_in">> >>),
       EntryInput("BATCH_CREATED_UTXO_SETTLED_CR", U("ONCHAIN_UTXO_AT_REST"),
                  "CREDIT", "SETTLED", << <<"+", "total_utxo_in">> >>),
       EntryInput("BATCH_CREATED_UTXO_ENCUMBERED_DR", U("ONCHAIN_UTXO_INCOMING"),
                  "DEBIT", "ENCUMBERED", << <<"+", "change">> >>),
       EntryInput("BATCH_CREATED_UTXO_ENCUMBERED_CR", P("onchain_income_account_id"),
                  "CREDIT", "ENCUMBERED", << <<"+", "change">> >>) >>

(***************************************************************************)
(* INCOMING_UTXO, CONFIRMED_UTXO and QUEUED_PAYOUT: the net effect the     *)
(* template table gives for them, as balanced entry pairs.                 *)
(***************************************************************************)
UtxoTxParams(ledger_account_ids, value_sats, correlation_id) ==
    [ onchain_income_account_id  |-> ledger_account_ids.onchain_incoming_id,
      onchain_at_rest_account_id |-> ledger_account_ids.onchain_at_rest_id,
      amount         |-> to_btc(value_sats),
      correlation_id |-> correlation_id ]

QueuedPayoutTxParams(ledger_account_ids, value_sats, reserved_fee_sats, correlation_id) ==
    [ logical_outgoing_account_id |-> ledger_account_ids.logical_outgoing_id,
      onchain_fee_account_id      |-> ledger_account_ids.fee_id,
      amount         |-> to_btc(value_sats),
      reserved_fees  |-> to_btc(reserved_fee_sats),
      correlation_id |-> correlation_id ]

IncomingUtxo_entries ==
    << EntryInput("INCOMING_UTXO_PENDING_DR", U("ONCHAIN_UTXO_INCOMING"),
                  "DEBIT", "PENDING", << <<"+", "amount">> >>),
       EntryInput("INCOMING_UTXO_PENDING_CR", P("onchain_income_account_id"),
                  "CREDIT", "PENDING", << <<"+", "amount">> >>) >>

\* a CONFIRMED_UTXO that credits the settled layer and leaves the pending one
ConfirmedUtxo_entries_SettledOnly ==
    << EntryInput("CONFIRMED_UTXO_SETTLED_DR", U("ONCHAIN_UTXO_AT_REST"),
                  "DEBIT", "SETTLED", << <<"+", "amount">> >>),
       EntryInput("CONFIRMED_UTXO_SETTLED_CR", P("onchain_at_rest_account_id"),
                  "CREDIT", "SETTLED", << <<"+", "amount">> >>) >>

ConfirmedUtxo_entries ==
    << EntryInput("CONFIRMED_UTXO_PENDING_DR", P("onchain_income_account_id"),
                  "DEBIT", "PENDING", << <<"+", "amount">> >>),
       EntryInput("CONFIRMED_UTXO_PENDING_CR", U("ONCHAIN_UTXO_INCOMING"),
                  "CREDIT", "PENDING", << <<"+", "amount">> >>),
       EntryInput("CONFIRMED_UTXO_SETTLED_DR", U("ONCHAIN_UTXO_AT_REST"),
                  "DEBIT", "SETTLED", << <<"+", "amount">> >>),
       EntryInput("CONFIRMED_UTXO_SETTLED_CR", P("onchain_at_rest_account_id"),
                  "CREDIT", "SETTLED", << <<"+", "amount">> >>) >>

QueuedPayout_entries ==
    << EntryInput("QUEUED_PAYOUT_LOGICAL_ENCUMBERED_DR", U("LOGICAL_OUTGOING"),
                  "DEBIT", "ENCUMBERED", << <<"+", "amount">> >>),
       EntryInput("QUEUED_PAYOUT_LOGICAL_ENCUMBERED_CR", P("logical_outgoing_account_id"),
                  "CREDIT", "ENCUMBERED", << <<"+", "amount">> >>),
       EntryInput("QUEUED_PAYOUT_FEE_ENCUMBERED_DR", P("onchain_fee_account_id"),
                  "DEBIT", "ENCUMBERED", << <<"+", "reserved_fees">> >>),
       EntryInput("QUEUED_PAYOUT_FEE_ENCUMBERED_CR", U("ONCHAIN_FEE"),
                  "CREDIT", "ENCUMBERED", << <<"+", "reserved_fees">> >>) >>

INCOMING_UTXO_CODE == "INCOMING_UTXO"
CONFIRMED_UTXO_CODE == "CONFIRMED_UTXO"
QUEUED_PAYOUT_CODE == "QUEUED_PAYOUT"
CREATE_BATCH_CODE == "CREATE_BATCH"
BATCH_CREATED_CODE == "BATCH_CREATED"

BatchTemplateCodes == {CREATE_BATCH_CODE, BATCH_CREATED_CODE}

AllTemplateCodes ==
    {INCOMING_UTXO_CODE, CONFIRMED_UTXO_CODE, QUEUED_PAYOUT_CODE} \cup BatchTemplateCodes

\* CREATE_BATCH registered with a settled credit that leaves the fees out
NewTxTemplate_SettledCreditWithoutFees(code) ==
    CASE code = CREATE_BATCH_CODE ->
             [CreateBatch_entries EXCEPT ![6].units = << <<"+", "total_spent">> >>]
      [] code = BATCH_CREATED_CODE -> BatchCreated_entries
      [] code = INCOMING_UTXO_CODE -> IncomingUtxo_entries
      [] code = CONFIRMED_UTXO_CODE -> ConfirmedUtxo_entries
      [] code = QUEUED_PAYOUT_CODE -> QueuedPayout_entries

\* CREATE_BATCH registered with the pending UTXO pair moving total_in, fees included
NewTxTemplate_PendingUtxoWithFees(code) ==
    CASE code = CREATE_BATCH_CODE ->
             [CreateBatch_entries EXCEPT ![11].units = << <<"+", "total_in">> >>,
                                         ![12].units = << <<"+", "total_in">> >>]
      [] code = BATCH_CREATED_CODE -> BatchCreated_entries
      [] code = INCOMING_UTXO_CODE -> IncomingUtxo_entries
      [] code = CONFIRMED_UTXO_CODE -> ConfirmedUtxo_entries
      [] code = QUEUED_PAYOUT_CODE -> QueuedPayout_entries

\* NewTxTemplate::builder().code(code).entries(entries): what init registers under a code
\* BATCH_CREATED registered with the pending UTXO pair moving total_utxo_in, fees included
NewTxTemplate_BatchCreatedPendingWithFees(code) ==
    CASE code = CREATE_BATCH_CODE -> CreateBatch_entries
      [] code = BATCH_CREATED_CODE ->
             [BatchCreated_entries EXCEPT ![11].units = << <<"+", "total_utxo_in">> >>,
                                          ![12].units = << <<"+", "total_utxo_in">> >>]
      [] code = INCOMING_UTXO_CODE -> IncomingUtxo_entries
      [] code = CONFIRMED_UTXO_CODE -> ConfirmedUtxo_entries
      [] code = QUEUED_PAYOUT_CODE -> QueuedPayout_entries

NewTxTemplate(code) ==
    CASE code = CREATE_BATCH_CODE -> CreateBatch_entries
      [] code = BATCH_CREATED_CODE -> BatchCreated_entries
      [] code = INCOMING_UTXO_CODE -> IncomingUtxo_entries
      [] code = CONFIRMED_UTXO_CODE -> ConfirmedUtxo_entries
      [] code = QUEUED_PAYOUT_CODE -> QueuedPayout_entries

(***************************************************************************)
(* Evaluation of a template on its parameters, as posting does it.         *)
(***************************************************************************)
EvalAccount(expr, params) ==
    IF expr[1] = "param" THEN params[expr[2]] ELSE <<System, expr[2]>>

RECURSIVE EvalUnits(_, _, _)
EvalUnits(expr, i, params) ==
    IF i > Len(expr) THEN DZero
    ELSE LET term == params[expr[i][2]]
         IN  DAdd(IF expr[i][1] = "+" THEN term ELSE DNeg(term),
                  EvalUnits(expr, i + 1, params))

EvalEntries(entries, params) ==
    [ i \in 1..Len(entries) |->
        [ entry_type |-> entries[i].entry_type,
          currency   |-> entries[i].currency,
          account_id |-> EvalAccount(entries[i].account_id, params),
          direction  |-> entries[i].direction,
          layer      |-> entries[i].layer,
          units      |-> EvalUnits(entries[i].units, 1, params) ] ]

(***************************************************************************)
(* Registration at startup.  A create of the ledger fails with             *)
(* DuplicateKey when the id or the code exists already, and may fail with  *)
(* another error of the database.                                          *)
(***************************************************************************)
LedgerErrors == {"none", "Sqlx"}

\* tx_templates().create(template)
tx_templates_create(table, code, db_error) ==
    IF db_error # "none" THEN [ res |-> db_error, table |-> table ]
    ELSE IF code \in DOMAIN table THEN [ res |-> "DuplicateKey", table |-> table ]
    ELSE [ res |-> "Ok", table |-> (code :> NewTxTemplate(code)) @@ table ]

\* an init that hands the DuplicateKey error on to the caller
TxTemplate_init_NoSwallow(table, code, db_error) ==
    LET r == tx_templates_create(table, code, db_error)
    IN  [ ok |-> r.res = "Ok", err |-> IF r.res = "Ok" THEN "" ELSE r.res,
          table |-> r.table ]

\* CreateBatch::init / BatchCreated::init: the match on the result of create
TxTemplate_init(table, code, db_error) ==
    LET r == tx_templates_create(table, code, db_error)
    IN  CASE r.res = "DuplicateKey" -> [ ok |-> TRUE, err |-> "", table |-> r.table ]
          [] r.res = "Ok" -> [ ok |-> TRUE, err |-> "", table |-> r.table ]
          [] OTHER -> [ ok |-> FALSE, err |-> r.res, table |-> r.table ]

LedgerAccount(id, code, normal_balance_type) ==
    [ id |-> id, code |-> code, normal_balance_type |-> normal_balance_type ]

\* accounts().create(new_account)
accounts_create(table, new_account, db_error) ==
    IF db_error # "none" THEN [ res |-> db_error, id |-> None, table |-> table ]
    ELSE IF \E a \in table : a.id = new_account.id \/ a.code = new_account.code
    THEN [ res |-> "DuplicateKey", id |-> None, table |-> table ]
    ELSE [ res |-> "Ok", id |-> Some(new_account.id), table |-> table \cup {new_account} ]

\* the four system accounts Ledger::init creates
SystemAccountIds ==
    {ONCHAIN_INCOMING_ID, ONCHAIN_AT_REST_ID, ONCHAIN_FEE_ID, ONCHAIN_OUTGOING_ID}

\* Ledger::onchain_income_account, onchain_at_rest_account, onchain_fee_account,
\* onchain_outgoing_account: the account has the fixed id, its code, and a debit
\* normal balance
onchain_account(table, id, db_error) ==
    LET r == accounts_create(table, LedgerAccount(id, <<"SYSTEM", System, id[2]>>, "debit"),
                             db_error)
    IN  CASE r.res = "DuplicateKey" ->
                 [ ok |-> TRUE, err |-> "", id |-> Some(id), table |-> r.table ]
          [] r.res = "Ok" -> [ ok |-> TRUE, err |-> "", id |-> r.id, table |-> r.table ]
          [] OTHER -> [ ok |-> FALSE, err |-> r.res, id |-> None, table |-> r.table ]

\* the steps of Ledger::init, in order
Ledger_init_steps ==
    << <<"account", ONCHAIN_INCOMING_ID>>, <<"account", ONCHAIN_AT_REST_ID>>,
       <<"account", ONCHAIN_FEE_ID>>, <<"account", ONCHAIN_OUTGOING_ID>>,
       <<"template", INCOMING_UTXO_CODE>>, <<"template", CONFIRMED_UTXO_CODE>>,
       <<"template", QUEUED_PAYOUT_CODE>> >>

RECURSIVE Ledger_init(_, _, _, _)
\* Ledger::init from step i on: each step is run with ?, so the first error ends
\* the call; fail_at is the step the database fails at (0: none)
Ledger_init(account_table, template_table, i, fail_at) ==
    IF i > Len(Ledger_init_steps)
    THEN [ ok |-> TRUE, err |-> "", accounts |-> account_table,
           templates |-> template_table ]
    ELSE LET step == Ledger_init_steps[i]
             db_error == IF i = fail_at THEN "Sqlx" ELSE "none"
             a == onchain_account(account_table, step[2], db_error)
             t == TxTemplate_init(template_table, step[2], db_error)
         IN  IF step[1] = "account"
             THEN IF a.ok THEN Ledger_init(a.table, template_table, i + 1, fail_at)
                  ELSE [ ok |-> FALSE, err |-> a.err, accounts |-> a.table,
                         templates |-> template_table ]
             ELSE IF t.ok THEN Ledger_init(account_table, t.table, i + 1, fail_at)
                  ELSE [ ok |-> FALSE, err |-> t.err, accounts |-> account_table,
                         templates |-> t.table ]

\* LedgerAccountId::new() and the id of an account built without one
NewLedgerAccountId(wallet_id, name) == Uuid("account", <<wallet_id, name>>, 1)

\* Ledger::create_account_for_wallet: an account with a fresh id, the given code
\* and the default normal balance
create_account_for_wallet(table, wallet_id, wallet_code, name, db_error) ==
    LET r == accounts_create(table,
                 LedgerAccount(NewLedgerAccountId(wallet_id, name), wallet_code, "credit"),
                 db_error)
    IN  [ ok |-> r.res = "Ok", err |-> IF r.res = "Ok" THEN "" ELSE r.res, id |-> r.id,
          table |-> r.table ]

\* Ledger::create_ledger_accounts_for_wallet: the incoming and the dust account
\* are created, the other three ids are fresh ids; fail_at is the create the
\* database fails at (0: none), and an error leaves the caller's transaction
\* to be rolled back
create_ledger_accounts_for_wallet(table, wallet_id, fail_at) ==
    LET incoming == create_account_for_wallet(table, wallet_id,
                        <<"WALLET", wallet_id, "INCOMING">>, "incoming",
                        IF fail_at = 1 THEN "Sqlx" ELSE "none")
        dust == create_account_for_wallet(incoming.table, wallet_id,
                        <<"WALLET", wallet_id, "DUST">>, "dust",
                        IF fail_at = 2 THEN "Sqlx" ELSE "none")
    IN  IF ~incoming.ok
        THEN [ ok |-> FALSE, err |-> incoming.err, ids |-> None, table |-> table ]
        ELSE IF ~dust.ok
        THEN [ ok |-> FALSE, err |-> dust.err, ids |-> None, table |-> table ]
        ELSE [ ok |-> TRUE, err |-> "",
               ids |-> Some([ incoming_id |-> Unwrap(incoming.id),
                              at_rest_id  |-> NewLedgerAccountId(wallet_id, "at_rest"),
                              fee_id      |-> NewLedgerAccountId(wallet_id, "fee"),
                              outgoing_id |-> NewLedgerAccountId(wallet_id, "outgoing"),
                              dust_id     |-> Unwrap(dust.id) ]),
               table |-> dust.table ]

(***************************************************************************)
(* The admin application: admin keys, accounts and account keys.           *)
(***************************************************************************)
BOOTSTRAP_KEY_NAME == "admin_bootstrap_key"

AccountNames == {"acme", "beta"}

\* the tables the admin application writes, and the journals of the ledger
NoAdmin == [ keys |-> {}, accounts |-> {}, account_keys |-> {}, journals |-> {} ]

\* AdminApiKeys::create: a new key row with a fresh id and a fresh secret
AdminApiKeys_create(db, name) ==
    LET n == Cardinality(db.keys) + 1
        key == [ id |-> Uuid("admin_key", <<name>>, n), name |-> name,
                 key |-> <<"bria_admin", n>> ]
    IN  [ db |-> [db EXCEPT !.keys = @ \cup {key}], key |-> key ]

\* Accounts::create: a new account row with a fresh id
Accounts_create(db, name) ==
    LET n == Cardinality(db.accounts) + 1
        account == [ id |-> Uuid("account", <<name>>, n), name |-> name ]
    IN  [ db |-> [db EXCEPT !.accounts = @ \cup {account}], account |-> account ]

\* AccountApiKeys::create: a new key row bound to the account
AccountApiKeys_create(db, name, account_id) ==
    LET n == Cardinality(db.account_keys) + 1
        key == [ id |-> Uuid("account_key", <<name>>, n), name |-> name,
                 key |-> <<"bria", n>>, account_id |-> account_id ]
    IN  [ db |-> [db EXCEPT !.account_keys = @ \cup {key}], key |-> key ]

\* Ledger::create_journal_for_account: the journal takes the id of the account;
\* creating a journal whose id exists fails
create_journal_for_account(db, id, account_name) ==
    LET new_journal == [ id |-> id, name |-> account_name ]
    IN  IF \E j \in db.journals : j.id = id
        THEN [ ok |-> FALSE, err |-> "SqlxLedger", id |-> None, db |-> db ]
        ELSE [ ok |-> TRUE, err |-> "", id |-> Some(id),
               db |-> [db EXCEPT !.journals = @ \cup {new_journal}] ]

\* AdminApp::bootstrap
bootstrap(db) == AdminApiKeys_create(db, BOOTSTRAP_KEY_NAME)

\* AdminApp::account_create: the account row, then the key of the account
account_create(db, name) ==
    LET account == Accounts_create(db, name)
    IN  AccountApiKeys_create(account.db, name, account.account.id)

(***************************************************************************)
(* The state.                                                              *)
(***************************************************************************)
VARIABLES
    templates,         \* codes of the registered transaction templates
    admin,             \* the admin keys, accounts, account keys and journals
    accounts,          \* the accounts of the ledger
    ledger,            \* the committed ledger transactions
    next_uuid,         \* freshly allocated ids (Uuid::new_v4) are next_uuid, next_uuid + 1, ...
    utxos,             \* the committed rows of bria_utxos, by primary key
    payouts,           \* the committed rows of payouts
    batches,           \* the committed batch rows
    txn,               \* the open database transaction of each batch creator
    signing_sessions,  \* the persisted signing sessions
    xpubs,             \* the stored event rows of each xpub (bria_xpub_events)
    signer_calls,      \* number of RemoteSigningClient::sign calls made so far
    last               \* the last repository / job call: its arguments and what it returned

pipeline_vars == <<admin, accounts, utxos, payouts, batches, txn, signing_sessions, xpubs,
                   signer_calls, last>>

vars == <<templates, admin, accounts, ledger, next_uuid, utxos, payouts, batches, txn,
          signing_sessions, xpubs, signer_calls, last>>

(***************************************************************************)
(* post_transaction_in_tx: the template's entries are evaluated on the     *)
(* parameters and recorded as one ledger transaction.                      *)
(***************************************************************************)
LedgerTx(code, correlation_id, wallet, params, meta, entries) ==
    [ code |-> code, correlation_id |-> correlation_id, wallet |-> wallet,
      params |-> params, meta |-> meta, entries |-> entries ]

\* the meta of a posting: the UTXO, batch or payout the transaction is about
Meta(utxo, batch_id, payout_id) ==
    [ utxo |-> utxo, batch_id |-> batch_id, payout_id |-> payout_id ]

NoMeta == Meta(None, None, None)

RECURSIVE SumUnits(_, _)
\* the sum of the units of the entries i..Len(entries)
SumUnits(entries, i) ==
    IF i > Len(entries) THEN DZero
    ELSE DAdd(entries[i].units, SumUnits(entries, i + 1))

LayerTotal(entries, layer, direction) ==
    LET keep(e) == e.layer = layer /\ e.direction = direction /\ e.currency = "BTC"
    IN  SumUnits(SelectSeq(entries, keep), 1)

RECURSIVE AccountEntries(_, _)
\* the entries of the transactions txs that are posted against account_id
AccountEntries(txs, account_id) ==
    IF txs = {} THEN <<>>
    ELSE LET tx == CHOOSE t \in txs : TRUE
             mine(e) == e.account_id = account_id
         IN  SelectSeq(tx.entries, mine) \o AccountEntries(txs \ {tx}, account_id)

(***************************************************************************)
(* Ledger::get_balance: none when the account has no balance row; else the *)
(* debit and credit totals per layer.  The wallet accounts are created     *)
(* with the default (credit) normal balance type.                          *)
(***************************************************************************)
get_balance(txs, account_id) ==
    LET entries == AccountEntries(txs, account_id)
    IN  IF entries = <<>> THEN None
        ELSE Some([ settled_dr    |-> LayerTotal(entries, "SETTLED", "DEBIT"),
                    settled_cr    |-> LayerTotal(entries, "SETTLED", "CREDIT"),
                    pending_dr    |-> LayerTotal(entries, "PENDING", "DEBIT"),
                    pending_cr    |-> LayerTotal(entries, "PENDING", "CREDIT"),
                    encumbered_dr |-> LayerTotal(entries, "ENCUMBERED", "DEBIT"),
                    encumbered_cr |-> LayerTotal(entries, "ENCUMBERED", "CREDIT") ])

settled(b) == DSub(b.settled_cr, b.settled_dr)
pending(b) == DSub(b.pending_cr, b.pending_dr)
encumbered(b) == DSub(b.encumbered_cr, b.encumbered_dr)

WalletLedgerAccountBalances(txs, w) ==
    [ incoming |-> get_balance(txs, WalletLedgerAccountIds(w).onchain_incoming_id),
      at_rest  |-> get_balance(txs, WalletLedgerAccountIds(w).onchain_at_rest_id),
      fee      |-> get_balance(txs, WalletLedgerAccountIds(w).fee_id),
      outgoing |-> get_balance(txs, WalletLedgerAccountIds(w).logical_outgoing_id) ]

\* Option::map(f).unwrap_or(Decimal::ZERO)
MapOrZero(b, f(_)) == IF b = None THEN DZero ELSE f(Unwrap(b))

\* a summary that reports the settled balance of the at-rest account as it is
WalletBalanceSummary_NoClamp(balances) ==
    [ current_settled     |-> from_btc(MapOrZero(balances.at_rest, settled)),
      pending_incoming    |-> from_btc(MapOrZero(balances.incoming, pending)),
      pending_outgoing    |-> from_btc(MapOrZero(balances.outgoing, pending)),
      pending_fees        |-> from_btc(MapOrZero(balances.fee, pending)),
      encumbered_fees     |-> from_btc(MapOrZero(balances.fee, encumbered)),
      encumbered_outgoing |-> from_btc(MapOrZero(balances.outgoing, encumbered)) ]

\* From<WalletLedgerAccountBalances> for WalletBalanceSummary
WalletBalanceSummary(balances) ==
    LET clamped(b) == IF DLess(settled(b), DZero) THEN DZero ELSE settled(b)
    IN  [ current_settled     |-> from_btc(MapOrZero(balances.at_rest, clamped)),
          pending_incoming    |-> from_btc(MapOrZero(balances.incoming, pending)),
          pending_outgoing    |-> from_btc(MapOrZero(balances.outgoing, pending)),
          pending_fees        |-> from_btc(MapOrZero(balances.fee, pending)),
          encumbered_fees     |-> from_btc(MapOrZero(balances.fee, encumbered)),
          encumbered_outgoing |-> from_btc(MapOrZero(balances.outgoing, encumbered)) ]

(***************************************************************************)
(* bria_utxos.  The table maps each primary key to None (no row) or        *)
(* Some(row).                                                              *)
(***************************************************************************)
BatchGroups == {"g1"}

Creators == {"c1", "c2"}

BlockHeights == {800000}

KeyOf(keychain_id, outpoint) == <<keychain_id, outpoint[1], outpoint[2]>>

OutPoint(key) == <<key[2], key[3]>>

\* the keychain kind and the address of an output are fixed by its script
KindOf(key) == IF key[3] = 0 THEN "external" ELSE "internal"

AddressOf(key) == <<"addr", key[2], key[3]>>

\* the value of an output is fixed by the transaction that created it
ValueOf(key) == IF key[3] = 0 THEN MaxSats ELSE 1

NewUtxo(key, value, spent, income_pending_ledger_tx_id) ==
    [ wallet_id   |-> KeychainWallet(key[1]),
      keychain_id |-> key[1],
      outpoint    |-> OutPoint(key),
      kind        |-> KindOf(key),
      value       |-> value,
      address     |-> AddressOf(key),
      spent       |-> spent,
      income_pending_ledger_tx_id |-> income_pending_ledger_tx_id ]

\* the row an INSERT of utxo creates: the columns not listed take their defaults
InsertedRow(utxo) ==
    [ wallet_id   |-> utxo.wallet_id,
      keychain_id |-> utxo.keychain_id,
      kind        |-> utxo.kind,
      value       |-> utxo.value,
      address     |-> utxo.address,
      spent       |-> utxo.spent,
      block_height           |-> None,
      pending_ledger_tx_id   |-> utxo.income_pending_ledger_tx_id,
      confirmed_ledger_tx_id |-> None,
      spending_batch_id      |-> None ]

\* INSERT ... ON CONFLICT (keychain_id, tx_id, vout) DO UPDATE: the row is overwritten
persist_utxo_Upsert(table, utxo) ==
    LET key == KeyOf(utxo.keychain_id, utxo.outpoint)
    IN  [ table |-> [table EXCEPT ![key] = Some(InsertedRow(utxo))],
          ret   |-> Some(utxo.income_pending_ledger_tx_id) ]

\* UtxoRepo::persist_utxo: INSERT ... ON CONFLICT (keychain_id, tx_id, vout) DO NOTHING;
\* Some(income_pending_ledger_tx_id) iff rows_affected > 0
persist_utxo(table, utxo) ==
    LET key == KeyOf(utxo.keychain_id, utxo.outpoint)
        rows_affected == IF IsSome(table[key]) THEN 0 ELSE 1
    IN  [ table |-> IF rows_affected > 0
                    THEN [table EXCEPT ![key] = Some(InsertedRow(utxo))]
                    ELSE table,
          ret   |-> IF rows_affected > 0
                    THEN Some(utxo.income_pending_ledger_tx_id)
                    ELSE None ]

\* a result that reports the new id as the pending id too
ConfirmedUtxo_NewIdAsPending(keychain_id, row, block_height, new_confirmed_ledger_tx_id) ==
    [ keychain_id  |-> keychain_id,
      value        |-> row.value,
      address      |-> row.address,
      block_height |-> block_height,
      pending_ledger_tx_id   |-> new_confirmed_ledger_tx_id,
      confirmed_ledger_tx_id |-> new_confirmed_ledger_tx_id,
      spending_batch_id      |-> row.spending_batch_id ]

ConfirmedUtxo(keychain_id, row, block_height, new_confirmed_ledger_tx_id) ==
    [ keychain_id  |-> keychain_id,
      value        |-> row.value,
      address      |-> row.address,
      block_height |-> block_height,
      pending_ledger_tx_id   |-> row.pending_ledger_tx_id,
      confirmed_ledger_tx_id |-> new_confirmed_ledger_tx_id,
      spending_batch_id      |-> row.spending_batch_id ]

\* a mark_utxo_confirmed that reads the updated row with fetch_optional and
\* falls back to an empty row when the UPDATE matched nothing
mark_utxo_confirmed_IgnoreMissing(table, keychain_id, outpoint, spent, block_height, new_id) ==
    LET key == KeyOf(keychain_id, outpoint)
        empty == [ value |-> 0, address |-> AddressOf(key),
                   pending_ledger_tx_id |-> new_id, spending_batch_id |-> None ]
    IN  IF IsSome(table[key])
        THEN LET row == [Unwrap(table[key]) EXCEPT
                             !.spent = spent,
                             !.block_height = Some(block_height),
                             !.confirmed_ledger_tx_id = Some(new_id)]
             IN  [ ok |-> TRUE, table |-> [table EXCEPT ![key] = Some(row)],
                   utxo |-> Some(ConfirmedUtxo(keychain_id, row, block_height, new_id)) ]
        ELSE [ ok |-> TRUE, table |-> table,
               utxo |-> Some(ConfirmedUtxo(keychain_id, empty, block_height, new_id)) ]

\* an UPDATE that also resets spending_batch_id
mark_utxo_confirmed_ClearsReservation(table, keychain_id, outpoint, spent, block_height, new_id) ==
    LET key == KeyOf(keychain_id, outpoint)
    IN  IF IsSome(table[key])
        THEN LET row == [Unwrap(table[key]) EXCEPT
                             !.spent = spent,
                             !.block_height = Some(block_height),
                             !.confirmed_ledger_tx_id = Some(new_id),
                             !.spending_batch_id = None]
             IN  [ ok |-> TRUE, table |-> [table EXCEPT ![key] = Some(row)],
                   utxo |-> Some(ConfirmedUtxo(keychain_id, row, block_height, new_id)) ]
        ELSE [ ok |-> FALSE, table |-> table, utxo |-> None ]

\* an UPDATE that leaves block_height out of its SET list
mark_utxo_confirmed_NoHeight(table, keychain_id, outpoint, spent, block_height, new_id) ==
    LET key == KeyOf(keychain_id, outpoint)
    IN  IF IsSome(table[key])
        THEN LET row == [Unwrap(table[key]) EXCEPT
                             !.spent = spent,
                             !.confirmed_ledger_tx_id = Some(new_id)]
             IN  [ ok |-> TRUE, table |-> [table EXCEPT ![key] = Some(row)],
                   utxo |-> Some(ConfirmedUtxo(keychain_id, row, block_height, new_id)) ]
        ELSE [ ok |-> FALSE, table |-> table, utxo |-> None ]

\* UtxoRepo::mark_utxo_confirmed: UPDATE ... SET spent, block_height,
\* confirmed_ledger_tx_id WHERE (keychain_id, tx_id, vout) RETURNING ..., read with
\* fetch_one: no matching row is the error RowNotFound
mark_utxo_confirmed(table, keychain_id, outpoint, spent, block_height, new_id) ==
    LET key == KeyOf(keychain_id, outpoint)
    IN  IF IsSome(table[key])
        THEN LET row == [Unwrap(table[key]) EXCEPT
                             !.spent = spent,
                             !.block_height = Some(block_height),
                             !.confirmed_ledger_tx_id = Some(new_id)]
             IN  [ ok |-> TRUE, table |-> [table EXCEPT ![key] = Some(row)],
                   utxo |-> Some(ConfirmedUtxo(keychain_id, row, block_height, new_id)) ]
        ELSE [ ok |-> FALSE, table |-> table, utxo |-> None ]

ReservableUtxo(key, row) ==
    [ keychain_id    |-> key[1],
      income_address |-> (row.kind = "external"),
      outpoint       |-> OutPoint(key),
      spending_batch_id      |-> row.spending_batch_id,
      confirmed_ledger_tx_id |-> row.confirmed_ledger_tx_id ]

\* the SELECT without the spent = false condition
find_reservable_utxos_AlsoSpent(table, ids) ==
    { ReservableUtxo(key, Unwrap(table[key])) :
          key \in {k \in DOMAIN table : IsSome(table[k]) /\ k[1] \in ids} }

\* the SELECT without the keychain_id = ANY($1) condition
find_reservable_utxos_AnyKeychain(table, ids) ==
    { ReservableUtxo(key, Unwrap(table[key])) :
          key \in {k \in DOMAIN table : IsSome(table[k]) /\ ~Unwrap(table[k]).spent} }

\* UtxoRepo::find_reservable_utxos: SELECT ... WHERE keychain_id = ANY($1)
\* AND spent = false FOR UPDATE
find_reservable_utxos(table, ids) ==
    { ReservableUtxo(key, Unwrap(table[key])) :
          key \in {k \in DOMAIN table :
                       /\ IsSome(table[k])
                       /\ k[1] \in ids
                       /\ ~Unwrap(table[k]).spent} }

\* the SELECT without FOR UPDATE: no row is locked
ForUpdate_NoLock(found) == {}

\* the FOR UPDATE of find_reservable_utxos: every returned row stays locked by the
\* selecting transaction until it commits or rolls back
ForUpdate(found) == {KeyOf(u.keychain_id, u.outpoint) : u \in found}

\* the UPDATE without its WHERE clause: every row is reserved
reserve_utxos_in_batch_AllRows(table, batch_id, keys) ==
    [ k \in DOMAIN table |->
        IF IsSome(table[k])
        THEN Some([Unwrap(table[k]) EXCEPT !.spending_batch_id = Some(batch_id)])
        ELSE table[k] ]

\* an UPDATE that also marks the listed rows as spent
reserve_utxos_in_batch_MarksSpent(table, batch_id, keys) ==
    [ k \in DOMAIN table |->
        IF k \in keys /\ IsSome(table[k])
        THEN Some([Unwrap(table[k]) EXCEPT !.spending_batch_id = Some(batch_id),
                                           !.spent = TRUE])
        ELSE table[k] ]

\* UtxoRepo::reserve_utxos_in_batch: UPDATE bria_utxos SET spending_batch_id = $1
\* WHERE (keychain_id, tx_id, vout) IN (the listed tuples)
reserve_utxos_in_batch(table, batch_id, keys) ==
    [ k \in DOMAIN table |->
        IF k \in keys /\ IsSome(table[k])
        THEN Some([Unwrap(table[k]) EXCEPT !.spending_batch_id = Some(batch_id)])
        ELSE table[k] ]

(***************************************************************************)
(* payouts.  A row is one version of a payout.                             *)
(***************************************************************************)
NewPayout(id, batch_group_id, wallet_id, satoshis) ==
    [ id |-> id, batch_group_id |-> batch_group_id, wallet_id |-> wallet_id,
      satoshis |-> satoshis ]

\* Payouts::create_in_tx: INSERT INTO payouts (id, ..., satoshis, ...); version,
\* priority, batch_id and created_at take their defaults
create_in_tx(rows, new_payout, now) ==
    rows \cup { [ id             |-> new_payout.id,
                  version        |-> 1,
                  batch_group_id |-> new_payout.batch_group_id,
                  wallet_id      |-> new_payout.wallet_id,
                  satoshis       |-> new_payout.satoshis,
                  batch_id       |-> None,
                  priority       |-> 0,
                  created_at     |-> now ] }

\* an update of a payout: a new row with the same id and the next version, carrying
\* the updated amount, priority and batch
update_payout(rows, id, satoshis, priority, batch_id, now) ==
    LET latest == CHOOSE r \in rows :
                      r.id = id /\ \A o \in rows : o.id = id => o.version <= r.version
    IN  rows \cup { [ id             |-> id,
                      version        |-> latest.version + 1,
                      batch_group_id |-> latest.batch_group_id,
                      wallet_id      |-> latest.wallet_id,
                      satoshis       |-> satoshis,
                      batch_id       |-> batch_id,
                      priority       |-> priority,
                      created_at     |-> now ] }

Payout(row) == [ id |-> row.id, wallet_id |-> row.wallet_id, satoshis |-> row.satoshis ]

RECURSIVE OrderRows(_)
\* ORDER BY priority, created_at
OrderRows(rows) ==
    IF rows = {} THEN <<>>
    ELSE LET first == CHOOSE r \in rows :
                 \A o \in rows :
                     \/ r.priority < o.priority
                     \/ r.priority = o.priority /\ r.created_at <= o.created_at
         IN  <<Payout(first)>> \o OrderRows(rows \ {first})

\* the query without the batch_id IS NULL condition
list_unbatched_AlsoBatched(rows, batch_group_id) ==
    LET mine == {r \in rows : r.batch_group_id = batch_group_id}
        latest == { <<r.id, r.version>> : r \in
                        {u \in mine : \A o \in mine : o.id = u.id => o.version <= u.version} }
    IN  OrderRows({r \in rows : <<r.id, r.version>> \in latest})

\* Payouts::list_unbatched: latest = (id, MAX(version)) over the rows of the group
\* with batch_id IS NULL; the rows with (id, version) IN latest, ordered
list_unbatched(rows, batch_group_id) ==
    LET unbatched == {r \in rows : r.batch_group_id = batch_group_id /\ r.batch_id = None}
        latest == { <<r.id, r.version>> : r \in
                        {u \in unbatched :
                             \A o \in unbatched : o.id = u.id => o.version <= u.version} }
    IN  OrderRows({r \in rows : <<r.id, r.version>> \in latest})

\* the payouts of the list get the batch: UPDATE payouts SET batch_id WHERE id = ANY(ids)
assign_batch(rows, batch_id, ids) ==
    { IF r.id \in ids THEN [r EXCEPT !.batch_id = Some(batch_id)] ELSE r : r \in rows }

Range(seq) == {seq[i] : i \in 1..Len(seq)}

RECURSIVE SumFn(_)
\* the sum of the values of a function with a finite domain
SumFn(f) ==
    IF DOMAIN f = {} THEN 0
    ELSE LET x == CHOOSE y \in DOMAIN f : TRUE
         IN  f[x] + SumFn([y \in DOMAIN f \ {x} |-> f[y]])

(***************************************************************************)
(* Batches and batch construction.                                         *)
(***************************************************************************)
\* Batches::find_by_id: the committed row, or the error of a missing batch
find_by_id(rows, batch_id) ==
    IF \E b \in rows : b.id = batch_id
    THEN Some(CHOOSE b \in rows : b.id = batch_id)
    ELSE None

\* included_utxos: wallet -> keychain -> outpoints
IncludedUtxos(wallets, keys) ==
    [ w \in wallets |->
        [ kc \in {k[1] : k \in {x \in keys : KeychainWallet(x[1]) = w}} |->
            {OutPoint(k) : k \in {x \in keys : x[1] = kc}} ] ]

BatchInputs(batch) ==
    UNION { UNION { { KeyOf(kc, op) : op \in batch.included_utxos[w][kc] } :
                        kc \in DOMAIN batch.included_utxos[w] } :
                w \in DOMAIN batch.included_utxos }

\* the fee that QUEUED_PAYOUT encumbered for a payout when it was queued
ReservedFee(txs, payout_id) ==
    LET queued == {tx \in txs : tx.code = QUEUED_PAYOUT_CODE
                                /\ tx.meta.payout_id = Some(payout_id)}
    IN  IF queued = {} THEN 0
        ELSE from_btc((CHOOSE tx \in queued : TRUE).params.reserved_fees)

\* per-wallet totals of a batch over the selected inputs: the wallet's payouts,
\* its fee share and what is left as change
WalletSummary(w, unbatched, selected, fee_sats, table, txs) ==
    LET mine == {p \in Range(unbatched) : p.wallet_id = w}
        inputs == {k \in selected : KeychainWallet(k[1]) = w}
        total_in == SumFn([k \in inputs |-> Unwrap(table[k]).value])
        total_spent == SumFn([p \in mine |-> p.satoshis])
    IN  [ total_in_sats    |-> total_in,
          total_spent_sats |-> total_spent,
          fee_sats         |-> fee_sats,
          change_sats      |-> total_in - total_spent - fee_sats,
          encumbered_fees  |-> SumFn([p \in mine |-> ReservedFee(txs, p.id)]) ]

NewBatch(id, batch_group_id, unbatched, selected, fee, table, txs) ==
    LET involved == {p.wallet_id : p \in Range(unbatched)}
    IN  [ id               |-> id,
          batch_group_id   |-> batch_group_id,
          payout_ids       |-> {p.id : p \in Range(unbatched)},
          included_utxos   |-> IncludedUtxos(involved, selected),
          wallet_summaries |-> [ w \in involved |->
              WalletSummary(w, unbatched, selected, fee[w], table, txs) ] ]

\* a coin selection that accepts any selection
Funded_Always(batch) == TRUE

\* coin selection funded every wallet of the batch
Funded(batch) ==
    \A w \in DOMAIN batch.wallet_summaries :
        /\ batch.wallet_summaries[w].change_sats >= 0
        /\ batch.wallet_summaries[w].total_in_sats > 0

(***************************************************************************)
(* Event-sourced entities.  The stored log of an entity is a set of rows   *)
(* (sequence, event); in memory an entity holds EntityEvents: the events   *)
(* in order and the sequence of the last stored one.                       *)
(***************************************************************************)
EntityEvents(last_persisted_sequence, events) ==
    [ last_persisted_sequence |-> last_persisted_sequence, events |-> events ]

\* EntityEvents::new
EntityEvents_new == EntityEvents(0, <<>>)

\* EntityEvents::init: the first events of a new entity, none stored yet
EntityEvents_init(initial_events) == EntityEvents(0, initial_events)

\* EntityEvents::push
push(entity_events, event) ==
    [entity_events EXCEPT !.events = Append(@, event)]

\* EntityEvents::load_event
load_event(entity_events, sequence, event) ==
    EntityEvents(sequence, Append(entity_events.events, event))

\* storing an entity: the events after the last stored one become rows, numbered
\* from last_persisted_sequence + 1
new_event_rows(entity_events) ==
    { [ sequence |-> i, event |-> entity_events.events[i] ] :
          i \in (entity_events.last_persisted_sequence + 1)..Len(entity_events.events) }

RECURSIVE OrderBySequence_Descending(_)
\* the rows by decreasing sequence
OrderBySequence_Descending(rows) ==
    IF rows = {} THEN <<>>
    ELSE LET first == CHOOSE r \in rows : \A o \in rows : o.sequence <= r.sequence
         IN  <<first>> \o OrderBySequence_Descending(rows \ {first})

RECURSIVE OrderBySequence(_)
\* ORDER BY sequence: the event rows of one entity by increasing sequence
OrderBySequence(rows) ==
    IF rows = {} THEN <<>>
    ELSE LET first == CHOOSE r \in rows : \A o \in rows : r.sequence <= o.sequence
         IN  <<first>> \o OrderBySequence(rows \ {first})

RECURSIVE LoadRows(_, _, _)
\* the loop over the rows of one entity: load_event on each row, in row order
LoadRows(ordered, i, entity_events) ==
    IF i > Len(ordered) THEN entity_events
    ELSE LoadRows(ordered, i + 1,
                  load_event(entity_events, ordered[i].sequence, ordered[i].event))

(***************************************************************************)
(* Signing sessions and the batch_signing job.                             *)
(***************************************************************************)
\* Wallet::xpubs_for_keychains: the xpubs of a (single-sig) keychain
KeychainXPubs(kc) == IF kc = "kc1" THEN {"xpub1"} ELSE {"xpub2"}

\* SigningSessions::find_for_batch: none when no session of the batch has an event,
\* else the sessions of the batch by xpub id
find_for_batch(sessions, batch_id) ==
    LET mine == {s \in sessions : s.batch_id = batch_id /\ s.events # {}}
    IN  IF mine = {} THEN None
        ELSE Some([ xpub_sessions |->
                      [ x \in {s.xpub : s \in mine} |->
                          LET first_row == CHOOSE s \in mine : s.xpub = x
                          IN  [ batch_id    |-> batch_id,
                                wallet_id   |-> first_row.wallet_id,
                                keychain_id |-> first_row.keychain_id,
                                xpub        |-> x,
                                events      |-> LoadRows(OrderBySequence(first_row.events),
                                                         1, EntityEvents_new) ] ] ])

NewSigningSession(batch_id, wallet_id, keychain_id, xpub) ==
    [ batch_id |-> batch_id, wallet_id |-> wallet_id, keychain_id |-> keychain_id,
      xpub |-> xpub ]

XPubIds == UNION {KeychainXPubs(kc) : kc \in Keychains}

\* the loop over batch.included_utxos: one session per (wallet, keychain, xpub)
BuildSessions(batch) ==
    { NewSigningSession(batch.id, t[1], t[2], t[3]) :
          t \in { x \in Wallets \X Keychains \X XPubIds :
                      /\ x[1] \in DOMAIN batch.included_utxos
                      /\ x[2] \in DOMAIN batch.included_utxos[x[1]]
                      /\ x[3] \in KeychainXPubs(x[2]) } }

JobResult(ok, err, new_sessions, sessions, signer_calls_made) ==
    [ ok |-> ok, err |-> err, new_sessions |-> new_sessions,
      signing_sessions |-> sessions, signer_calls |-> signer_calls_made ]

\* a job that builds the sessions of the batch without looking for stored ones
execute_AlwaysBuild(sessions, committed_batches, signer_calls_made, data) ==
    LET batch == find_by_id(committed_batches, data.batch_id)
    IN  IF ~IsSome(batch)
        THEN JobResult(FALSE, "BatchNotFound", {}, sessions, signer_calls_made)
        ELSE JobResult(TRUE, "", BuildSessions(Unwrap(batch)), sessions,
                       signer_calls_made)

\* a job that goes on with an empty batch when find_by_id finds no row
execute_IgnoreMissingBatch(sessions, committed_batches, signer_calls_made, data) ==
    IF IsSome(find_for_batch(sessions, data.batch_id))
    THEN JobResult(TRUE, "", {}, sessions, signer_calls_made)
    ELSE LET batch == find_by_id(committed_batches, data.batch_id)
         IN  IF ~IsSome(batch)
             THEN JobResult(TRUE, "", {}, sessions, signer_calls_made)
             ELSE JobResult(TRUE, "", BuildSessions(Unwrap(batch)), sessions,
                            signer_calls_made)

\* job::batch_signing::execute: the sessions of the batch are reloaded, or built
\* from the batch row; the built sessions are dropped when execute returns, no
\* signer is called
execute(sessions, committed_batches, signer_calls_made, data) ==
    IF IsSome(find_for_batch(sessions, data.batch_id))
    THEN JobResult(TRUE, "", {}, sessions, signer_calls_made)
    ELSE LET batch == find_by_id(committed_batches, data.batch_id)
         IN  IF ~IsSome(batch)
             THEN JobResult(FALSE, "BatchNotFound", {}, sessions, signer_calls_made)
             ELSE JobResult(TRUE, "", BuildSessions(Unwrap(batch)), sessions,
                            signer_calls_made)

(***************************************************************************)
(* The xpub entity.                                                        *)
(***************************************************************************)
SignerConfigs == {"lnd", "bitcoind"}

AccountIds == {"acct1", "acct2"}

DerivationPaths == {None, Some("m/84h/0h/0h")}

XPubEvent(type, name, config, value) ==
    [ type |-> type, name |-> name, config |-> config, value |-> value ]

\* value::XPub: the extended public key and its optional derivation path
XPubValue(inner, derivation) == [ inner |-> inner, derivation |-> derivation ]

\* the fingerprint of an extended public key
fingerprint(inner) == <<"fingerprint", inner>>

\* value::XPub::id: the id of an xpub is its fingerprint
XPubValue_id(value) == fingerprint(value.inner)

NewAccountXPub(db_uuid, account_id, key_name, original, value) ==
    [ db_uuid |-> db_uuid, account_id |-> account_id, key_name |-> key_name,
      original |-> original, value |-> value ]

\* NewAccountXPub::initial_events
initial_events(new_xpub) ==
    LET xpub == new_xpub.value.inner
    IN  EntityEvents_init(
            << XPubEvent("xpub_initialized", None, None,
                         Some([ db_uuid            |-> new_xpub.db_uuid,
                                account_id         |-> new_xpub.account_id,
                                fingerprint        |-> fingerprint(xpub),
                                parent_fingerprint |-> <<"parent", xpub>>,
                                xpub               |-> xpub,
                                original           |-> new_xpub.original,
                                derivation_path    |-> new_xpub.value.derivation ])),
               XPubEvent("xpub_name_updated", Some(new_xpub.key_name), None, None) >>)

\* AccountXPub::set_signer_config, on the events of the entity
set_signer_config(entity_events, config) ==
    push(entity_events, XPubEvent("signer_config_updated", None, Some(config), None))

RECURSIVE signing_cfg_First(_, _, _)
\* the config of the first SignerConfigUpdated event
signing_cfg_First(events, i, ret) ==
    IF i > Len(events) THEN ret
    ELSE signing_cfg_First(events, i + 1,
                           IF events[i].type = "signer_config_updated" /\ ~IsSome(ret)
                           THEN events[i].config ELSE ret)

RECURSIVE signing_cfg(_, _, _)
\* AccountXPub::signing_cfg: the config of the last SignerConfigUpdated event
signing_cfg(events, i, ret) ==
    IF i > Len(events) THEN ret
    ELSE signing_cfg(events, i + 1,
                     IF events[i].type = "signer_config_updated"
                     THEN events[i].config ELSE ret)

\* AccountXPub::remote_signing_client: no client without a config; with one, the
\* connection to the configured signer, which may fail
remote_signing_client(entity_events, connected) ==
    LET cfg == signing_cfg(entity_events.events, 1, None)
    IN  IF ~IsSome(cfg) THEN [ ok |-> TRUE, err |-> "", client |-> None ]
        ELSE IF connected THEN [ ok |-> TRUE, err |-> "", client |-> cfg ]
        ELSE [ ok |-> FALSE, err |-> "SigningClientError", client |-> None ]

\* AccountXPubBuilder: every field starts unset
AccountXPubBuilder ==
    [ db_uuid |-> None, account_id |-> None, key_name |-> None, value |-> None ]

\* one step of the loop of TryFrom<EntityEvents<XPubEvent>>
ApplyXPubEvent_FirstNameWins(builder, event) ==
    IF event.type = "xpub_initialized"
    THEN LET init == Unwrap(event.value)
         IN  [builder EXCEPT !.db_uuid = Some(init.db_uuid),
                             !.account_id = Some(init.account_id),
                             !.value = Some(XPubValue(init.xpub, init.derivation_path))]
    ELSE IF event.type = "xpub_name_updated" /\ ~IsSome(builder.key_name)
    THEN [builder EXCEPT !.key_name = event.name]
    ELSE builder

ApplyXPubEvent(builder, event) ==
    IF event.type = "xpub_initialized"
    THEN LET init == Unwrap(event.value)
         IN  [builder EXCEPT !.db_uuid = Some(init.db_uuid),
                             !.account_id = Some(init.account_id),
                             !.value = Some(XPubValue(init.xpub, init.derivation_path))]
    ELSE IF event.type = "xpub_name_updated"
    THEN [builder EXCEPT !.key_name = event.name]
    ELSE builder

RECURSIVE ApplyXPubEvents(_, _, _)
\* the loop of TryFrom over the events, in order
ApplyXPubEvents(events, i, builder) ==
    IF i > Len(events) THEN builder
    ELSE ApplyXPubEvents(events, i + 1, ApplyXPubEvent(builder, events[i]))

\* AccountXPubBuilder::build: an EntityError when a field was never set
BuildAccountXPub(builder, entity_events) ==
    IF /\ IsSome(builder.db_uuid) /\ IsSome(builder.account_id)
       /\ IsSome(builder.key_name) /\ IsSome(builder.value)
    THEN [ ok |-> TRUE, err |-> "",
           entity |-> Some([ account_id |-> Unwrap(builder.account_id),
                             key_name   |-> Unwrap(builder.key_name),
                             value      |-> Unwrap(builder.value),
                             db_uuid    |-> Unwrap(builder.db_uuid),
                             events     |-> entity_events ]) ]
    ELSE [ ok |-> FALSE, err |-> "EntityError", entity |-> None ]

\* a rehydration that forgets the derivation path
AccountXPub_try_from_NoDerivation(entity_events) ==
    LET b == ApplyXPubEvents(entity_events.events, 1, AccountXPubBuilder)
    IN  BuildAccountXPub(IF IsSome(b.value)
                         THEN [b EXCEPT !.value = Some(XPubValue(Unwrap(@).inner, None))]
                         ELSE b,
                         entity_events)

\* TryFrom<EntityEvents<XPubEvent>> for AccountXPub
AccountXPub_try_from(entity_events) ==
    BuildAccountXPub(ApplyXPubEvents(entity_events.events, 1, AccountXPubBuilder),
                     entity_events)

\* the strings an import may be handed: an extended public key, a string that
\* is not one, and a key at another depth than an account key
XPubStrings == {"xpub1", "not-an-xpub", "xpub-at-depth-5"}

\* value::XPub parsed from the imported string
XPubValue_try_from(original, derivation) ==
    IF original \in {"xpub1", "xpub2"}
    THEN [ ok |-> TRUE, err |-> "", value |-> Some(XPubValue(original, derivation)) ]
    ELSE IF original = "xpub-at-depth-5"
    THEN [ ok |-> FALSE, err |-> "XPubDepthMismatch", value |-> None ]
    ELSE [ ok |-> FALSE, err |-> "XPubParseError", value |-> None ]

\* a persist that stores the first event before the string is parsed
XPubs_persist_WriteFirst(table, db_uuid, account_id, name, original, derivation) ==
    LET parsed == XPubValue_try_from(original, derivation)
        new_xpub == NewAccountXPub(db_uuid, account_id, name, original,
                                   IF parsed.ok THEN Unwrap(parsed.value)
                                   ELSE XPubValue("xpub1", derivation))
        rows == new_event_rows(initial_events(new_xpub))
    IN  IF parsed.ok
        THEN [ ok |-> TRUE, err |-> "", id |-> Some(new_xpub.value.inner),
               table |-> [table EXCEPT ![new_xpub.value.inner] = rows] ]
        ELSE [ ok |-> FALSE, err |-> parsed.err, id |-> None,
               table |-> [table EXCEPT !["xpub1"] = {r \in rows : r.sequence = 1}] ]

\* XPubs::persist: the string is parsed, then the initial events of the new xpub
\* are stored under its id; a string that does not parse writes nothing
XPubs_persist(table, db_uuid, account_id, name, original, derivation) ==
    LET parsed == XPubValue_try_from(original, derivation)
    IN  IF ~parsed.ok
        THEN [ ok |-> FALSE, err |-> parsed.err, id |-> None, table |-> table ]
        ELSE LET new_xpub == NewAccountXPub(db_uuid, account_id, name, original,
                                            Unwrap(parsed.value))
             IN  [ ok |-> TRUE, err |-> "", id |-> Some(new_xpub.value.inner),
                   table |-> [table EXCEPT ![new_xpub.value.inner] =
                                  new_event_rows(initial_events(new_xpub))] ]

\* XPubs::find: the stored events of an xpub, loaded in sequence order and
\* turned into the entity
XPubs_find(table, x) ==
    AccountXPub_try_from(LoadRows(OrderBySequence(table[x]), 1, EntityEvents_new))

(***************************************************************************)
(* The open transaction of a batch creator, and the record of the last     *)
(* call.                                                                   *)
(***************************************************************************)
IdleTxn ==
    [ pc             |-> "idle",
      batch_group_id |-> None,
      unbatched      |-> <<>>,
      keychain_ids   |-> {},
      reservable     |-> {},
      utxos          |-> None,
      written        |-> {},
      batch          |-> None,
      ledger         |-> {} ]

\* the rows a creator holds locked: those its SELECT ... FOR UPDATE returned and
\* those its UPDATE wrote
Locked(c) == ForUpdate(txn[c].reservable) \cup txn[c].written

NoCall ==
    [ op |-> "none", key |-> None, batch_id |-> None, value |-> 0, spent |-> FALSE,
      ok |-> TRUE, err |-> "", id |-> None, ids |-> {}, rows |-> {},
      batch_group_id |-> None, list |-> <<>>, input |-> None, entity |-> None,
      client |-> None ]

InitPipeline ==
    /\ admin = NoAdmin
    /\ utxos = [k \in UtxoKeys |-> None]
    /\ payouts = {}
    /\ batches = {}
    /\ txn = [c \in Creators |-> IdleTxn]
    /\ signing_sessions = {}
    /\ xpubs = [x \in XPubIds |-> {}]
    /\ signer_calls = 0
    /\ last = NoCall

(***************************************************************************)
(* SpecLedger: the template engine with every template registered; each    *)
(* action posts one template on parameters chosen freely.                  *)
(***************************************************************************)
InitLedger ==
    /\ templates = [code \in AllTemplateCodes |-> NewTxTemplate(code)]
    /\ accounts = Ledger_init({}, <<>>, 1, 0).accounts
    /\ ledger = {}
    /\ next_uuid = 1
    /\ InitPipeline

\* post_transaction_in_tx(tx, code, params): fails when the code is not registered
post_transaction(code, correlation_id, wallet, params, meta) ==
    LedgerTx(code, correlation_id, wallet, params, meta, EvalEntries(templates[code], params))

CanPost(code) ==
    /\ code \in DOMAIN templates
    /\ Cardinality(ledger) < MaxPosts
    /\ next_uuid <= MaxUuid

PostCreateBatch ==
    /\ CanPost(CREATE_BATCH_CODE)
    /\ \E w \in Wallets, total_in_sats \in 0..MaxSats, total_spent_sats \in 0..MaxSats,
          fee_sats \in 0..MaxFee, reserved_fees \in 0..MaxFee :
          ledger' = ledger \cup
              {post_transaction(CREATE_BATCH_CODE, Uuid("tx", <<>>, next_uuid), w,
                   CreateBatchTxParams(WalletLedgerAccountIds(w), total_in_sats,
                                       total_spent_sats, fee_sats, reserved_fees,
                                       Uuid("tx", <<>>, next_uuid)),
                   NoMeta)}
    /\ next_uuid' = next_uuid + 1
    /\ UNCHANGED <<templates, pipeline_vars>>

PostBatchCreated ==
    /\ CanPost(BATCH_CREATED_CODE)
    /\ \E w \in Wallets, total_utxo_in_sats \in 0..MaxSats, change_sats \in 0..MaxSats,
          fee_sats \in 0..MaxFee, encumbered_fees \in 0..MaxFee :
          ledger' = ledger \cup
              {post_transaction(BATCH_CREATED_CODE, Uuid("tx", <<>>, next_uuid), w,
                   BatchCreatedTxParams(WalletLedgerAccountIds(w), encumbered_fees,
                       Uuid("tx", <<>>, next_uuid),
                       [ total_utxo_in_sats |-> total_utxo_in_sats,
                         change_sats |-> change_sats, fee_sats |-> fee_sats ]),
                   NoMeta)}
    /\ next_uuid' = next_uuid + 1
    /\ UNCHANGED <<templates, pipeline_vars>>

PostIncomingUtxo ==
    /\ CanPost(INCOMING_UTXO_CODE)
    /\ \E w \in Wallets, value \in 1..MaxSats :
          ledger' = ledger \cup
              {post_transaction(INCOMING_UTXO_CODE, Uuid("tx", <<>>, next_uuid), w,
                   UtxoTxParams(WalletLedgerAccountIds(w), value, Uuid("tx", <<>>, next_uuid)),
                   NoMeta)}
    /\ next_uuid' = next_uuid + 1
    /\ UNCHANGED <<templates, pipeline_vars>>

PostConfirmedUtxo ==
    /\ CanPost(CONFIRMED_UTXO_CODE)
    /\ \E w \in Wallets, value \in 1..MaxSats :
          ledger' = ledger \cup
              {post_transaction(CONFIRMED_UTXO_CODE, Uuid("tx", <<>>, next_uuid), w,
                   UtxoTxParams(WalletLedgerAccountIds(w), value, Uuid("tx", <<>>, next_uuid)),
                   NoMeta)}
    /\ next_uuid' = next_uuid + 1
    /\ UNCHANGED <<templates, pipeline_vars>>

NextLedger ==
    \/ PostCreateBatch
    \/ PostBatchCreated
    \/ PostIncomingUtxo
    \/ PostConfirmedUtxo

SpecLedger == InitLedger /\ [][NextLedger]_vars

(***************************************************************************)
(* The operations of the pipeline.  The record of the last call is kept by *)
(* the specifications below, not by the operations.                        *)
(***************************************************************************)
Init == InitLedger

\* the id persist_utxo is handed for a key: a fresh LedgerTransactionId
NewPendingId(key) ==
    Uuid("pending", key,
         IF IsSome(utxos[key]) THEN Unwrap(utxos[key]).pending_ledger_tx_id[3] + 1 ELSE 1)

\* the id mark_utxo_confirmed allocates: LedgerTransactionId::new()
NewConfirmedId(key) ==
    Uuid("confirmed", key,
         IF IsSome(utxos[key]) /\ IsSome(Unwrap(utxos[key]).confirmed_ledger_tx_id)
         THEN Unwrap(Unwrap(utxos[key]).confirmed_ledger_tx_id)[3] + 1
         ELSE 1)

\* a UTXO is detected: persist_utxo and, when it returns an id, INCOMING_UTXO
\* posted under that id, in one transaction
ProcessNewUtxo(key, value, spent) ==
    /\ INCOMING_UTXO_CODE \in DOMAIN templates
    /\ LET utxo == NewUtxo(key, value, spent, NewPendingId(key))
           r == persist_utxo(utxos, utxo)
       IN  /\ utxos' = r.table
           /\ IF IsSome(r.ret)
              THEN ledger' = ledger \cup
                       {post_transaction(INCOMING_UTXO_CODE, Unwrap(r.ret), utxo.wallet_id,
                            UtxoTxParams(WalletLedgerAccountIds(utxo.wallet_id), utxo.value,
                                         Unwrap(r.ret)),
                            Meta(Some(key), None, None))}
              ELSE UNCHANGED ledger
    /\ UNCHANGED <<admin, accounts, xpubs, templates, next_uuid, payouts, batches, txn, signing_sessions,
                   signer_calls>>

\* a UTXO is seen in a block: mark_utxo_confirmed and, when it succeeds,
\* CONFIRMED_UTXO posted under the new id, in one transaction.  The UPDATE waits
\* while a batch creator holds the row locked.
ConfirmedUtxoJob(key, spent, block_height) ==
    /\ CONFIRMED_UTXO_CODE \in DOMAIN templates
    /\ \A c \in Creators : key \notin Locked(c)
    /\ LET r == mark_utxo_confirmed(utxos, key[1], OutPoint(key), spent, block_height,
                                    NewConfirmedId(key))
       IN  IF r.ok
           THEN /\ utxos' = r.table
                /\ ledger' = ledger \cup
                      {post_transaction(CONFIRMED_UTXO_CODE,
                           Unwrap(r.utxo).confirmed_ledger_tx_id, KeychainWallet(key[1]),
                           UtxoTxParams(WalletLedgerAccountIds(KeychainWallet(key[1])),
                                        Unwrap(r.utxo).value,
                                        Unwrap(r.utxo).confirmed_ledger_tx_id),
                           Meta(Some(key), None, None))}
           ELSE UNCHANGED <<utxos, ledger>>
    /\ UNCHANGED <<admin, accounts, xpubs, templates, next_uuid, payouts, batches, txn, signing_sessions,
                   signer_calls>>

\* the confirmation job, delivered at most MaxConfirms times for a UTXO
ProcessConfirmedUtxo(key, spent, block_height) ==
    /\ NewConfirmedId(key)[3] <= MaxConfirms
    /\ ConfirmedUtxoJob(key, spent, block_height)

\* what is committed of a transaction that is dropped without commit
rollback_KeepWrites(committed, written) == written

\* a transaction dropped on the error path is rolled back: the committed rows stay
rollback(committed, written) == committed

\* a UTXO is detected and persist_utxo inserts its row, but the posting of
\* INCOMING_UTXO fails: the transaction is dropped
ProcessNewUtxoPostingFails(key, value, spent) ==
    /\ LET r == persist_utxo(utxos, NewUtxo(key, value, spent, NewPendingId(key)))
       IN  /\ IsSome(r.ret)
           /\ utxos' = rollback(utxos, r.table)
    /\ UNCHANGED <<admin, accounts, xpubs, templates, ledger, next_uuid, payouts, batches, txn,
                   signing_sessions, signer_calls>>

\* mark_utxo_confirmed updates the row, but the posting of CONFIRMED_UTXO fails:
\* the transaction is dropped
ProcessConfirmedUtxoPostingFails(key, spent, block_height) ==
    /\ \A c \in Creators : key \notin Locked(c)
    /\ LET r == mark_utxo_confirmed(utxos, key[1], OutPoint(key), spent, block_height,
                                    NewConfirmedId(key))
       IN  /\ r.ok
           /\ utxos' = rollback(utxos, r.table)
    /\ UNCHANGED <<admin, accounts, xpubs, templates, ledger, next_uuid, payouts, batches, txn,
                   signing_sessions, signer_calls>>

\* a payout is queued: the row and QUEUED_PAYOUT in one transaction
QueuePayout(batch_group_id, wallet_id, satoshis, reserved_fee) ==
    /\ Cardinality(payouts) < MaxPayouts
    /\ QUEUED_PAYOUT_CODE \in DOMAIN templates
    /\ LET now == Cardinality(payouts) + 1
           id == Uuid("payout", <<>>, now)
       IN  /\ payouts' = create_in_tx(payouts,
                             NewPayout(id, batch_group_id, wallet_id, satoshis), now)
           /\ ledger' = ledger \cup
                  {post_transaction(QUEUED_PAYOUT_CODE, id, wallet_id,
                       QueuedPayoutTxParams(WalletLedgerAccountIds(wallet_id), satoshis,
                                            reserved_fee, id),
                       Meta(None, None, Some(id)))}
    /\ UNCHANGED <<admin, accounts, xpubs, templates, next_uuid, utxos, batches, txn, signing_sessions,
                   signer_calls>>

\* a payout is updated: the new version is appended
UpdatePayout(id, satoshis, priority, batch_id) ==
    /\ Cardinality(payouts) < MaxPayouts
    /\ \E r \in payouts : r.id = id
    /\ payouts' = update_payout(payouts, id, satoshis, priority, batch_id,
                                Cardinality(payouts) + 1)
    /\ UNCHANGED <<admin, accounts, xpubs, templates, ledger, next_uuid, utxos, batches, txn, signing_sessions,
                   signer_calls>>

\* list_unbatched is called in a transaction that changes nothing
ListUnbatched(batch_group_id) ==
    UNCHANGED <<admin, accounts, xpubs, templates, ledger, next_uuid, utxos, payouts, batches, txn,
                signing_sessions, signer_calls>>

\* batch construction, steps 1-3: the creator opens a transaction, takes the lock
\* of the batch group, lists the unbatched payouts and selects the unspent UTXOs
\* of the involved wallets FOR UPDATE
BeginBatch(c, batch_group_id) ==
    /\ txn[c].pc = "idle"
    /\ \A o \in Creators \ {c} : txn[o].batch_group_id # Some(batch_group_id)
    /\ LET unbatched == list_unbatched(payouts, batch_group_id)
           ids == UNION {WalletKeychains(p.wallet_id) : p \in Range(unbatched)}
           found == find_reservable_utxos(utxos, ids)
       IN  /\ unbatched # <<>>
           /\ \A o \in Creators \ {c} :
                  Locked(o) \cap ForUpdate(found) = {}
           /\ txn' = [txn EXCEPT ![c] =
                         [IdleTxn EXCEPT !.pc = "found",
                                         !.batch_group_id = Some(batch_group_id),
                                         !.unbatched = unbatched,
                                         !.keychain_ids = ids,
                                         !.reservable = found]]
    /\ UNCHANGED <<admin, accounts, xpubs, templates, ledger, next_uuid, utxos, payouts, batches,
                   signing_sessions, signer_calls>>

\* the posting of a batch for one wallet, from either batch template
PostBatch(code, batch, w) ==
    LET summary == batch.wallet_summaries[w]
    IN  post_transaction(code, batch.id, w,
            IF code = CREATE_BATCH_CODE
            THEN CreateBatchTxParams(WalletLedgerAccountIds(w), summary.total_in_sats,
                                     summary.total_spent_sats, summary.fee_sats,
                                     summary.encumbered_fees, batch.id)
            ELSE BatchCreatedTxParams(WalletLedgerAccountIds(w), summary.encumbered_fees,
                                      batch.id,
                                      [ total_utxo_in_sats |-> summary.total_in_sats,
                                        change_sats |-> summary.change_sats,
                                        fee_sats |-> summary.fee_sats ]),
            Meta(None, Some(batch.id), None))

\* batch construction, steps 4-7: coin selection per wallet over the reservable
\* confirmed UTXOs, a fresh BatchId, reservation of the selected UTXOs and one
\* posting per wallet, all inside the creator's transaction
BuildBatch(c) ==
    /\ txn[c].pc = "found"
    /\ next_uuid <= MaxUuid
    /\ LET unbatched == txn[c].unbatched
           involved == {p.wallet_id : p \in Range(unbatched)}
           candidates ==
               { KeyOf(u.keychain_id, u.outpoint) :
                     u \in { r \in txn[c].reservable :
                                /\ r.spending_batch_id = None
                                /\ IsSome(r.confirmed_ledger_tx_id)
                                /\ KeychainWallet(r.keychain_id) \in involved } }
       IN  \E selected \in SUBSET candidates, fee \in [involved -> 1..MaxFee],
              code \in BatchTemplateCodes :
               LET batch == NewBatch(Uuid("batch", <<>>, next_uuid),
                                     Unwrap(txn[c].batch_group_id), unbatched,
                                     selected, fee, utxos, ledger)
                   reserved == reserve_utxos_in_batch(utxos, batch.id, selected)
               IN  /\ code \in DOMAIN templates
                   /\ Funded(batch)
                   /\ txn' = [txn EXCEPT ![c] =
                                 [@ EXCEPT !.pc = "built",
                                           !.utxos = Some(reserved),
                                           !.written = {k \in UtxoKeys : reserved[k] # utxos[k]},
                                           !.batch = Some(batch),
                                           !.ledger = {PostBatch(code, batch, w) :
                                                           w \in involved}]]
    /\ next_uuid' = next_uuid + 1
    /\ UNCHANGED <<admin, accounts, xpubs, templates, ledger, utxos, payouts, batches, signing_sessions,
                   signer_calls>>

\* step 8: the transaction commits; its writes become the committed state
CommitBatch(c) ==
    /\ txn[c].pc = "built"
    /\ LET batch == Unwrap(txn[c].batch)
       IN  /\ utxos' = [k \in UtxoKeys |->
                           IF k \in txn[c].written THEN Unwrap(txn[c].utxos)[k] ELSE utxos[k]]
           /\ payouts' = assign_batch(payouts, batch.id, batch.payout_ids)
           /\ batches' = batches \cup {batch}
           /\ ledger' = ledger \cup txn[c].ledger
    /\ txn' = [txn EXCEPT ![c] = IdleTxn]
    /\ UNCHANGED <<admin, accounts, xpubs, templates, next_uuid, signing_sessions, signer_calls>>

\* the transaction is rolled back (coin selection cannot fund the batch, or a
\* statement fails): no row is changed
AbortBatch(c) ==
    /\ txn[c].pc # "idle"
    /\ txn' = [txn EXCEPT ![c] = IdleTxn]
    /\ UNCHANGED <<admin, accounts, xpubs, templates, ledger, next_uuid, utxos, payouts, batches,
                   signing_sessions, signer_calls>>

\* the sessions of a committed batch are stored, each as an entity with the
\* single event Initialized
PersistSessions(batch_id) ==
    /\ IsSome(find_by_id(batches, batch_id))
    /\ ~IsSome(find_for_batch(signing_sessions, batch_id))
    /\ signing_sessions' = signing_sessions \cup
           { [ batch_id    |-> n.batch_id,
               wallet_id   |-> n.wallet_id,
               keychain_id |-> n.keychain_id,
               xpub        |-> n.xpub,
               events      |-> new_event_rows(EntityEvents_init(<<"Initialized">>)) ] :
                 n \in BuildSessions(Unwrap(find_by_id(batches, batch_id))) }
    /\ UNCHANGED <<admin, accounts, xpubs, templates, ledger, next_uuid, utxos, payouts, batches, txn,
                   signer_calls>>

\* an event is appended to the stored session of a batch and xpub: the session is
\* reloaded, the event pushed and the new event stored
AppendSessionEvent(batch_id, xpub, event) ==
    /\ IsSome(find_for_batch(signing_sessions, batch_id))
    /\ xpub \in DOMAIN Unwrap(find_for_batch(signing_sessions, batch_id)).xpub_sessions
    /\ LET loaded == Unwrap(find_for_batch(signing_sessions, batch_id)).xpub_sessions[xpub]
           updated == push(loaded.events, event)
       IN  /\ Len(updated.events) <= MaxEvents
           /\ signing_sessions' =
                  { IF s.batch_id = batch_id /\ s.xpub = xpub
                    THEN [s EXCEPT !.events = @ \cup new_event_rows(updated)]
                    ELSE s : s \in signing_sessions }
    /\ UNCHANGED <<admin, accounts, xpubs, templates, ledger, next_uuid, utxos, payouts, batches, txn,
                   signer_calls>>

\* find_for_batch is called on its own
FindForBatch(batch_id) ==
    UNCHANGED <<admin, accounts, xpubs, templates, ledger, next_uuid, utxos, payouts, batches, txn,
                signing_sessions, signer_calls>>

\* App::import_xpub: XPubs::persist on the string, for an xpub not stored yet
PersistXPub(account_id, key_name, original, derivation) ==
    /\ original \in XPubIds => xpubs[original] = {}
    /\ xpubs' = XPubs_persist(xpubs, Uuid("xpub", <<original>>, 1), account_id, key_name,
                              original, derivation).table
    /\ UNCHANGED <<admin, accounts, templates, ledger, next_uuid, utxos, payouts, batches, txn,
                   signing_sessions, signer_calls>>

\* the signer config of a registered xpub is set: the entity is rehydrated from
\* its rows, set_signer_config pushes the event and the new event is stored
UpdateSignerConfig(x, config) ==
    /\ xpubs[x] # {}
    /\ LET loaded == LoadRows(OrderBySequence(xpubs[x]), 1, EntityEvents_new)
           updated == set_signer_config(loaded, config)
       IN  xpubs' = [xpubs EXCEPT ![x] = @ \cup new_event_rows(updated)]
    /\ UNCHANGED <<admin, accounts, templates, ledger, next_uuid, utxos, payouts, batches, txn,
                   signing_sessions, signer_calls>>

\* a registered xpub is looked up
FindXPub(x) ==
    /\ xpubs[x] # {}
    /\ UNCHANGED <<admin, accounts, xpubs, templates, ledger, next_uuid, utxos, payouts, batches, txn,
                   signing_sessions, signer_calls>>

\* remote_signing_client on a registered xpub; connected tells whether the
\* configured signer accepts the connection
RemoteSigningClient(x, connected) ==
    /\ xpubs[x] # {}
    /\ UNCHANGED <<admin, accounts, xpubs, templates, ledger, next_uuid, utxos, payouts, batches, txn,
                   signing_sessions, signer_calls>>

\* one delivery of the batch_signing job, for a batch id that has been allocated
RunBatchSigning(batch_id) ==
    /\ batch_id[3] < next_uuid
    /\ LET r == execute(signing_sessions, batches, signer_calls, [batch_id |-> batch_id])
       IN  /\ signing_sessions' = r.signing_sessions
           /\ signer_calls' = r.signer_calls
    /\ UNCHANGED <<admin, accounts, xpubs, templates, ledger, next_uuid, utxos, payouts, batches, txn>>

(***************************************************************************)
(* The record of the last call: what was called, on what, and what it      *)
(* returned (computed on the state the call ran in).                       *)
(***************************************************************************)
PersistCall(key, value, spent) ==
    [NoCall EXCEPT !.op = "persist_utxo", !.key = Some(key), !.value = value,
                   !.spent = spent,
                   !.id = persist_utxo(utxos, NewUtxo(key, value, spent,
                                                      NewPendingId(key))).ret]

ConfirmCall(key, spent, block_height) ==
    LET r == mark_utxo_confirmed(utxos, key[1], OutPoint(key), spent, block_height,
                                 NewConfirmedId(key))
    IN  [NoCall EXCEPT !.op = "mark_utxo_confirmed", !.key = Some(key), !.spent = spent,
                       !.value = block_height,
                       !.ok = r.ok,
                       !.err = IF r.ok THEN "" ELSE "RowNotFound",
                       !.id = IF r.ok THEN Some(Unwrap(r.utxo).confirmed_ledger_tx_id)
                              ELSE None,
                       !.entity = r.utxo]

RollbackCall(key) ==
    [NoCall EXCEPT !.op = "rollback", !.key = Some(key), !.ok = FALSE, !.err = "SqlxLedger"]

FindForBatchCall(batch_id) ==
    LET found == find_for_batch(signing_sessions, batch_id)
    IN  [NoCall EXCEPT !.op = "find_for_batch", !.batch_id = Some(batch_id),
                       !.ok = IsSome(found),
                       !.rows = IF IsSome(found)
                                THEN {Unwrap(found).xpub_sessions[x] :
                                          x \in DOMAIN Unwrap(found).xpub_sessions}
                                ELSE {}]

FindXPubCall(x) ==
    LET found == XPubs_find(xpubs, x)
    IN  [NoCall EXCEPT !.op = "find_xpub", !.id = Some(x), !.ok = found.ok,
                       !.entity = found.entity,
                       !.list = LoadRows(OrderBySequence(xpubs[x]), 1,
                                         EntityEvents_new).events]

PersistXPubCall(account_id, key_name, original, derivation) ==
    LET r == XPubs_persist(xpubs, Uuid("xpub", <<original>>, 1), account_id, key_name,
                           original, derivation)
    IN  [NoCall EXCEPT !.op = "import_xpub", !.ok = r.ok, !.err = r.err, !.id = r.id,
                       !.input = Some([ account_id |-> account_id,
                                        key_name |-> key_name,
                                        original |-> original,
                                        derivation |-> derivation ])]

SetSignerConfigCall(x, config) ==
    [NoCall EXCEPT !.op = "set_signer_config", !.id = Some(x),
                   !.input = Some([ config |-> config ])]

RemoteSigningClientCall(x, connected) ==
    LET r == remote_signing_client(Unwrap(XPubs_find(xpubs, x).entity).events, connected)
    IN  [NoCall EXCEPT !.op = "remote_signing_client", !.id = Some(x), !.ok = r.ok,
                       !.err = r.err, !.client = r.client,
                       !.input = Some([ connected |-> connected ])]

ListCall(batch_group_id) ==
    [NoCall EXCEPT !.op = "list_unbatched", !.batch_group_id = Some(batch_group_id),
                   !.list = list_unbatched(payouts, batch_group_id)]

SigningCall(batch_id) ==
    LET r == execute(signing_sessions, batches, signer_calls, [batch_id |-> batch_id])
    IN  [NoCall EXCEPT !.op = "batch_signing", !.batch_id = Some(batch_id),
                       !.ok = r.ok, !.err = r.err, !.rows = r.new_sessions]

\* the number of consecutive attempts against an unreachable signer after which a
\* session has stalled
StallAttempts == 3

\* the remote signers of the xpubs: the one of xpub1 returns a signed PSBT, the one
\* of xpub2 cannot be reached
SignerOf(xpub) == IF xpub = "xpub1" THEN "signed" ELSE "unreachable"

\* a delivery of the job, with the number of consecutive deliveries for the batch
SigningAttempt(batch_id) ==
    [SigningCall(batch_id) EXCEPT
        !.value = IF last.op = "batch_signing" /\ last.batch_id = Some(batch_id)
                  THEN IF last.value < StallAttempts THEN last.value + 1 ELSE StallAttempts
                  ELSE 1]

(***************************************************************************)
(* SpecUtxo: the UTXO store on its own.  The outputs of one transaction to *)
(* one keychain are detected and confirmed in any order, any number of     *)
(* times, with any value and spent flag.                                   *)
(***************************************************************************)
StoreKeys == {key \in UtxoKeys : key[1] = "kc1"}

NextUtxo ==
    \/ \E key \in StoreKeys, value \in 1..MaxSats, spent \in BOOLEAN :
           /\ ProcessNewUtxo(key, value, spent)
           /\ last' = PersistCall(key, value, spent)
    \/ \E key \in StoreKeys, spent \in BOOLEAN, block_height \in BlockHeights :
           /\ ProcessConfirmedUtxo(key, spent, block_height)
           /\ last' = ConfirmCall(key, spent, block_height)
    \/ \E key \in StoreKeys, value \in 1..MaxSats, spent \in BOOLEAN :
           /\ ProcessNewUtxoPostingFails(key, value, spent)
           /\ last' = RollbackCall(key)
    \/ \E key \in StoreKeys, spent \in BOOLEAN, block_height \in BlockHeights :
           /\ ProcessConfirmedUtxoPostingFails(key, spent, block_height)
           /\ last' = RollbackCall(key)

SpecUtxo == Init /\ [][NextUtxo]_vars

(***************************************************************************)
(* Spec: the pipeline.  An output is detected with the value its           *)
(* transaction gave it.                                                    *)
(***************************************************************************)
Next ==
    \/ \E key \in UtxoKeys :
           ProcessNewUtxo(key, ValueOf(key), FALSE) /\ last' = NoCall
    \/ \E key \in UtxoKeys, spent \in BOOLEAN, block_height \in BlockHeights :
           ProcessConfirmedUtxo(key, spent, block_height) /\ last' = NoCall
    \/ \E g \in BatchGroups, w \in Wallets, satoshis \in 1..MaxSats, reserved_fee \in 1..MaxFee :
           QueuePayout(g, w, satoshis, reserved_fee) /\ last' = NoCall
    \/ \E c \in Creators, g \in BatchGroups : BeginBatch(c, g) /\ last' = NoCall
    \/ \E c \in Creators : BuildBatch(c) /\ last' = NoCall
    \/ \E c \in Creators : CommitBatch(c) /\ last' = NoCall
    \/ \E c \in Creators : AbortBatch(c) /\ last' = NoCall
    \/ \E n \in 1..MaxUuid :
           /\ RunBatchSigning(Uuid("batch", <<>>, n))
           /\ last' = SigningCall(Uuid("batch", <<>>, n))

Spec == Init /\ [][Next]_vars

(***************************************************************************)
(* SpecRace: batch creators of two batch groups that pay out of the same   *)
(* wallet, so that only the row locks of the UTXO selection stand between  *)
(* them.                                                                   *)
(***************************************************************************)
RaceGroups == {"g1", "g2"}

NextRace ==
    \/ \E key \in StoreKeys :
           ProcessNewUtxo(key, MaxSats, FALSE) /\ last' = NoCall
    \/ \E key \in StoreKeys, block_height \in BlockHeights :
           ProcessConfirmedUtxo(key, FALSE, block_height) /\ last' = NoCall
    \/ \E g \in RaceGroups : QueuePayout(g, "w1", 1, 1) /\ last' = NoCall
    \/ \E c \in Creators, g \in RaceGroups : BeginBatch(c, g) /\ last' = NoCall
    \/ \E c \in Creators : BuildBatch(c) /\ last' = NoCall
    \/ \E c \in Creators : CommitBatch(c) /\ last' = NoCall
    \/ \E c \in Creators : AbortBatch(c) /\ last' = NoCall

SpecRace == Init /\ [][NextRace]_vars

(***************************************************************************)
(* SpecSigning: batches of one group over one UTXO of each wallet, their   *)
(* stored signing sessions and the deliveries of the batch_signing job.    *)
(***************************************************************************)
SigningKeys == {key \in UtxoKeys : key[3] = 0}

NextSigning ==
    \/ \E key \in SigningKeys :
           ProcessNewUtxo(key, MaxSats, FALSE) /\ last' = NoCall
    \/ \E key \in SigningKeys, block_height \in BlockHeights :
           ProcessConfirmedUtxo(key, FALSE, block_height) /\ last' = NoCall
    \/ \E g \in BatchGroups, w \in Wallets : QueuePayout(g, w, 1, 1) /\ last' = NoCall
    \/ \E g \in BatchGroups : BeginBatch("c1", g) /\ last' = NoCall
    \/ BuildBatch("c1") /\ last' = NoCall
    \/ CommitBatch("c1") /\ last' = NoCall
    \/ AbortBatch("c1") /\ last' = NoCall
    \/ \E n \in 1..MaxUuid :
           PersistSessions(Uuid("batch", <<>>, n)) /\ last' = NoCall
    \/ \E n \in 1..MaxUuid :
           /\ RunBatchSigning(Uuid("batch", <<>>, n))
           /\ last' = SigningAttempt(Uuid("batch", <<>>, n))

SpecSigning == Init /\ [][NextSigning]_vars

(***************************************************************************)
(* SpecEntity: the event logs.  A batch over one UTXO of wallet w1 gets    *)
(* its session stored; events are appended to the session and to the       *)
(* registered xpub, and both are reloaded.                                 *)
(***************************************************************************)
SessionEvents == {"RemoteSigningRoundFailed", "Completed"}

EntityKey == <<"kc1", "tx_a", 0>>

NextEntity ==
    \/ ProcessNewUtxo(EntityKey, MaxSats, FALSE) /\ last' = NoCall
    \/ \E block_height \in BlockHeights :
           ProcessConfirmedUtxo(EntityKey, FALSE, block_height) /\ last' = NoCall
    \/ \E g \in BatchGroups : QueuePayout(g, "w1", 1, 1) /\ last' = NoCall
    \/ \E g \in BatchGroups : BeginBatch("c1", g) /\ last' = NoCall
    \/ BuildBatch("c1") /\ last' = NoCall
    \/ CommitBatch("c1") /\ last' = NoCall
    \/ AbortBatch("c1") /\ last' = NoCall
    \/ \E n \in 1..MaxUuid :
           PersistSessions(Uuid("batch", <<>>, n)) /\ last' = NoCall
    \/ \E n \in 1..MaxUuid, event \in SessionEvents :
           AppendSessionEvent(Uuid("batch", <<>>, n), "xpub1", event) /\ last' = NoCall
    \/ \E n \in 1..MaxUuid :
           /\ FindForBatch(Uuid("batch", <<>>, n))
           /\ last' = FindForBatchCall(Uuid("batch", <<>>, n))
    \/ PersistXPub("acct1", "key1", "xpub1", None) /\ last' = NoCall
    \/ \E config \in SignerConfigs :
           /\ Cardinality(xpubs["xpub1"]) < MaxEvents
           /\ UpdateSignerConfig("xpub1", config)
           /\ last' = NoCall
    \/ FindXPub("xpub1") /\ last' = FindXPubCall("xpub1")

SpecEntity == Init /\ [][NextEntity]_vars

(***************************************************************************)
(* SpecXPub: the xpub registry.  Strings are imported under either         *)
(* account, signer configs are set, and the stored xpub is rehydrated and  *)
(* asked for its signing client.                                           *)
(***************************************************************************)
KeyNames == {"key1", "key2"}

\* the stored SignerConfigUpdated events of an xpub
ConfigEvents(x) == {r \in xpubs[x] : r.event.type = "signer_config_updated"}

NextXPub ==
    \/ \E account_id \in AccountIds, key_name \in KeyNames, original \in XPubStrings,
          derivation \in DerivationPaths :
           /\ PersistXPub(account_id, key_name, original, derivation)
           /\ last' = PersistXPubCall(account_id, key_name, original, derivation)
    \/ \E config \in SignerConfigs :
           /\ Cardinality(ConfigEvents("xpub1")) < MaxConfigs
           /\ UpdateSignerConfig("xpub1", config)
           /\ last' = SetSignerConfigCall("xpub1", config)
    \/ FindXPub("xpub1") /\ last' = FindXPubCall("xpub1")
    \/ \E connected \in BOOLEAN :
           /\ RemoteSigningClient("xpub1", connected)
           /\ last' = RemoteSigningClientCall("xpub1", connected)

SpecXPub == Init /\ [][NextXPub]_vars

(***************************************************************************)
(* SpecStartup: registration from an empty ledger.  Ledger::init, the init *)
(* of each batch template and the creation of each system account run any  *)
(* number of times, with or without an error of the database; wallets get  *)
(* their ledger accounts.                                                  *)
(***************************************************************************)
InitStartup ==
    /\ templates = <<>>
    /\ accounts = {}
    /\ ledger = {}
    /\ next_uuid = 1
    /\ InitPipeline

StartupCall(op, id, r) ==
    [NoCall EXCEPT !.op = op, !.id = id, !.ok = r.ok, !.err = r.err]

\* Ledger::init
LedgerInit(fail_at) ==
    LET r == Ledger_init(accounts, templates, 1, fail_at)
    IN  /\ accounts' = r.accounts
        /\ templates' = r.templates
        /\ last' = [StartupCall("Ledger::init", None, r) EXCEPT !.value = fail_at]
        /\ UNCHANGED <<admin, ledger, next_uuid, utxos, payouts, batches, txn, signing_sessions,
                       xpubs, signer_calls>>

\* CreateBatch::init and BatchCreated::init
TemplateInit(code, db_error) ==
    LET r == TxTemplate_init(templates, code, db_error)
    IN  /\ templates' = r.table
        /\ last' = [StartupCall("template_init", Some(code), r) EXCEPT
                        !.input = Some([ db_error |-> db_error,
                                         existed |-> code \in DOMAIN templates ])]
        /\ UNCHANGED <<admin, accounts, ledger, next_uuid, utxos, payouts, batches, txn,
                       signing_sessions, xpubs, signer_calls>>

\* Ledger::onchain_*_account
OnchainAccount(id, db_error) ==
    LET r == onchain_account(accounts, id, db_error)
    IN  /\ accounts' = r.table
        /\ last' = [StartupCall("onchain_account", Some(id), r) EXCEPT
                        !.input = Some([ db_error |-> db_error,
                                         existed |-> \E a \in accounts : a.id = id ]),
                        !.entity = r.id]
        /\ UNCHANGED <<admin, templates, ledger, next_uuid, utxos, payouts, batches, txn,
                       signing_sessions, xpubs, signer_calls>>

\* Ledger::create_ledger_accounts_for_wallet, for a wallet that is being created
CreateLedgerAccountsForWallet(wallet_id, fail_at) ==
    LET r == create_ledger_accounts_for_wallet(accounts, wallet_id, fail_at)
    IN  /\ \A a \in accounts : a.code # <<"WALLET", wallet_id, "INCOMING">>
        /\ accounts' = r.table
        /\ last' = [StartupCall("create_ledger_accounts_for_wallet", Some(wallet_id), r)
                        EXCEPT !.entity = r.ids]
        /\ UNCHANGED <<admin, templates, ledger, next_uuid, utxos, payouts, batches, txn,
                       signing_sessions, xpubs, signer_calls>>

NextStartup ==
    \/ \E fail_at \in 0..Len(Ledger_init_steps) : LedgerInit(fail_at)
    \/ \E code \in BatchTemplateCodes, db_error \in LedgerErrors :
           TemplateInit(code, db_error)
    \/ \E id \in SystemAccountIds, db_error \in LedgerErrors : OnchainAccount(id, db_error)
    \/ \E wallet_id \in Wallets, fail_at \in 0..2 :
           CreateLedgerAccountsForWallet(wallet_id, fail_at)

SpecStartup == InitStartup /\ [][NextStartup]_vars

(***************************************************************************)
(* SpecFunding: one batch creator over the UTXOs of keychain kc1, with     *)
(* payouts of wallet w1 that the UTXOs may or may not fund.                *)
(***************************************************************************)
AbortCall(c) ==
    [NoCall EXCEPT !.op = "abort_batch", !.ok = FALSE, !.id = Some(c)]

NextFunding ==
    \/ \E key \in StoreKeys, value \in 1..MaxSats :
           ProcessNewUtxo(key, value, FALSE) /\ last' = NoCall
    \/ \E key \in StoreKeys, spent \in BOOLEAN, block_height \in BlockHeights :
           /\ ProcessConfirmedUtxo(key, spent, block_height)
           /\ last' = ConfirmCall(key, spent, block_height)
    \/ \E g \in BatchGroups, satoshis \in 1..MaxSats, reserved_fee \in 1..MaxFee :
           QueuePayout(g, "w1", satoshis, reserved_fee) /\ last' = NoCall
    \/ \E g \in BatchGroups : BeginBatch("c1", g) /\ last' = NoCall
    \/ BuildBatch("c1") /\ last' = NoCall
    \/ CommitBatch("c1") /\ last' = NoCall
    \/ AbortBatch("c1") /\ last' = AbortCall("c1")

SpecFunding == Init /\ [][NextFunding]_vars

(***************************************************************************)
(* SpecRedelivery: at-least-once delivery of the UTXO jobs.  The detection *)
(* and the confirmation of a UTXO of keychain kc1 are delivered again,     *)
(* also after a batch has reserved the UTXO.                               *)
(***************************************************************************)
NextRedelivery ==
    \/ \E key \in StoreKeys, value \in 1..MaxSats :
           /\ ProcessNewUtxo(key, value, FALSE)
           /\ last' = PersistCall(key, value, FALSE)
    \/ \E key \in StoreKeys, spent \in BOOLEAN, block_height \in BlockHeights :
           /\ NewConfirmedId(key)[3] <= MaxDeliveries
           /\ ConfirmedUtxoJob(key, spent, block_height)
           /\ last' = ConfirmCall(key, spent, block_height)
    \/ \E g \in BatchGroups, reserved_fee \in 1..MaxFee :
           QueuePayout(g, "w1", 1, reserved_fee) /\ last' = NoCall
    \/ \E g \in BatchGroups : BeginBatch("c1", g) /\ last' = NoCall
    \/ BuildBatch("c1") /\ last' = NoCall
    \/ CommitBatch("c1") /\ last' = NoCall

SpecRedelivery == Init /\ [][NextRedelivery]_vars

(***************************************************************************)
(* SpecSessions: the signing session store on its own.  A session is       *)
(* stored for a batch, a wallet, a keychain of the wallet and an xpub; an  *)
(* xpub may be a key of several keychains.                                 *)
(***************************************************************************)
\* a new session is stored with the single event Initialized
StoreSession(batch_id, keychain_id, xpub) ==
    LET n == NewSigningSession(batch_id, KeychainWallet(keychain_id), keychain_id, xpub)
    IN  /\ \A s \in signing_sessions :
               NewSigningSession(s.batch_id, s.wallet_id, s.keychain_id, s.xpub) # n
        /\ signing_sessions' = signing_sessions \cup
               { [ batch_id    |-> n.batch_id,
                   wallet_id   |-> n.wallet_id,
                   keychain_id |-> n.keychain_id,
                   xpub        |-> n.xpub,
                   events      |-> new_event_rows(EntityEvents_init(<<"Initialized">>)) ] }
        /\ UNCHANGED <<admin, accounts, xpubs, templates, ledger, next_uuid, utxos, payouts,
                       batches, txn, signer_calls>>

NextSessions ==
    \/ \E n \in 1..MaxUuid, kc \in Keychains, x \in XPubIds :
           StoreSession(Uuid("batch", <<>>, n), kc, x) /\ last' = NoCall
    \/ \E n \in 1..MaxUuid :
           /\ FindForBatch(Uuid("batch", <<>>, n))
           /\ last' = FindForBatchCall(Uuid("batch", <<>>, n))

SpecSessions == Init /\ [][NextSessions]_vars

(***************************************************************************)
(* SpecRehydrate: TryFrom<EntityEvents<XPubEvent>> for AccountXPub on its  *)
(* own.  The event log handed to try_from is any sequence of at most       *)
(* MaxEvents events; a rehydrated entity takes set_signer_config and is    *)
(* rehydrated again from its log.                                          *)
(***************************************************************************)
XPubEventAlphabet ==
    { initial_events(NewAccountXPub(Uuid("xpub", <<"xpub1">>, 1), "acct1", "key1", "xpub1",
                                    XPubValue("xpub1", None))).events[1],
      initial_events(NewAccountXPub(Uuid("xpub", <<"xpub2">>, 1), "acct2", "key1", "xpub2",
                                    XPubValue("xpub2", Some("m/84h/0h/0h")))).events[1] }
    \cup { XPubEvent("xpub_name_updated", Some(name), None, None) : name \in KeyNames }
    \cup { XPubEvent("signer_config_updated", None, Some(config), None) :
               config \in SignerConfigs }

XPubEventLogs == UNION { [1..n -> XPubEventAlphabet] : n \in 0..MaxEvents }

InitRehydrate ==
    /\ templates = [code \in AllTemplateCodes |-> NewTxTemplate(code)]
    /\ accounts = Ledger_init({}, <<>>, 1, 0).accounts
    /\ ledger = {}
    /\ next_uuid = 1
    /\ admin = NoAdmin
    /\ utxos = [k \in UtxoKeys |-> None]
    /\ payouts = {}
    /\ batches = {}
    /\ txn = [c \in Creators |-> IdleTxn]
    /\ signing_sessions = {}
    /\ xpubs = [x \in XPubIds |-> {}]
    /\ signer_calls = 0
    /\ \E log \in XPubEventLogs : last = [NoCall EXCEPT !.op = "events", !.list = log]

\* AccountXPub::try_from(events)
Rehydrate ==
    /\ last.op \in {"events", "set_signer_config"}
    /\ LET r == AccountXPub_try_from(EntityEvents(Len(last.list), last.list))
       IN  last' = [NoCall EXCEPT !.op = "try_from", !.list = last.list, !.ok = r.ok,
                                  !.err = r.err, !.entity = r.entity]
    /\ UNCHANGED <<templates, admin, accounts, ledger, next_uuid, utxos, payouts, batches,
                   txn, signing_sessions, xpubs, signer_calls>>

\* AccountXPub::set_signer_config(config) on the rehydrated entity
SetSignerConfig(config) ==
    /\ last.op = "try_from"
    /\ last.ok
    /\ Len(last.list) <= MaxEvents
    /\ LET e == Unwrap(last.entity)
           events == set_signer_config(e.events, config)
       IN  last' = [NoCall EXCEPT !.op = "set_signer_config",
                                  !.input = Some([ config |-> config ]),
                                  !.list = events.events,
                                  !.entity = Some([e EXCEPT !.events = events])]
    /\ UNCHANGED <<templates, admin, accounts, ledger, next_uuid, utxos, payouts, batches,
                   txn, signing_sessions, xpubs, signer_calls>>

NextRehydrate ==
    \/ Rehydrate
    \/ \E config \in SignerConfigs : SetSignerConfig(config)

SpecRehydrate == InitRehydrate /\ [][NextRehydrate]_vars

(***************************************************************************)
(* SpecAdmin: the admin application.  Bootstrap and account creation run   *)
(* any number of times; the ledger creates the journal of an account when  *)
(* it is asked to.                                                         *)
(***************************************************************************)
AdminCall(op, id, key) ==
    [NoCall EXCEPT !.op = op, !.id = id, !.entity = key]

\* AdminApp::bootstrap
Bootstrap ==
    LET r == bootstrap(admin)
    IN  /\ Cardinality(admin.keys) < MaxAdminCalls
        /\ admin' = r.db
        /\ last' = AdminCall("bootstrap", None, Some(r.key))
        /\ UNCHANGED <<templates, accounts, ledger, next_uuid, utxos, payouts, batches, txn,
                       signing_sessions, xpubs, signer_calls>>

\* AdminApp::account_create
AccountCreate(name) ==
    LET r == account_create(admin, name)
    IN  /\ Cardinality(admin.accounts) < MaxAdminCalls
        /\ admin' = r.db
        /\ last' = [AdminCall("account_create", Some(r.key.account_id), Some(r.key))
                        EXCEPT !.input = Some([ name |-> name ])]
        /\ UNCHANGED <<templates, accounts, ledger, next_uuid, utxos, payouts, batches, txn,
                       signing_sessions, xpubs, signer_calls>>

\* Ledger::create_journal_for_account, for an account that exists
CreateJournalForAccount(account) ==
    LET r == create_journal_for_account(admin, account.id, account.name)
    IN  /\ admin' = r.db
        /\ last' = [AdminCall("create_journal_for_account", r.id, None)
                        EXCEPT !.ok = r.ok, !.err = r.err,
                               !.input = Some([ id |-> account.id ])]
        /\ UNCHANGED <<templates, accounts, ledger, next_uuid, utxos, payouts, batches, txn,
                       signing_sessions, xpubs, signer_calls>>

NextAdmin ==
    \/ Bootstrap
    \/ \E name \in AccountNames : AccountCreate(name)
    \/ \E account \in admin.accounts : CreateJournalForAccount(account)

SpecAdmin == Init /\ [][NextAdmin]_vars

(***************************************************************************)
(* SpecPayouts: the payouts table on its own.  Payouts are queued and      *)
(* updated, and the unbatched payouts of a group are listed.               *)
(***************************************************************************)
Priorities == {0, 1}

PayoutIds == {Uuid("payout", <<>>, n) : n \in 1..MaxPayouts}

BatchIds == {Uuid("batch", <<>>, 1)}

NextPayouts ==
    \/ \E g \in RaceGroups, w \in Wallets, satoshis \in 1..MaxSats :
           QueuePayout(g, w, satoshis, 1) /\ last' = NoCall
    \/ \E id \in PayoutIds, satoshis \in 1..MaxSats, priority \in Priorities,
          batch_id \in {None} \cup {Some(b) : b \in BatchIds} :
           UpdatePayout(id, satoshis, priority, batch_id) /\ last' = NoCall
    \/ \E g \in RaceGroups : ListUnbatched(g) /\ last' = ListCall(g)

SpecPayouts == Init /\ [][NextPayouts]_vars

(***************************************************************************)
(* C1: every ledger transaction posted from CREATE_BATCH or BATCH_CREATED  *)
(* is balanced per layer: in each of ENCUMBERED, PENDING and SETTLED the   *)
(* units of its DEBIT entries sum to the units of its CREDIT entries.      *)
(***************************************************************************)
C1_BatchTemplatesBalanced ==
    \A tx \in ledger :
        tx.code \in BatchTemplateCodes =>
            \A layer \in Layers :
                DEq(LayerTotal(tx.entries, layer, "DEBIT"),
                    LayerTotal(tx.entries, layer, "CREDIT"))

\* a batch transaction with fees > 0 and a settled debit > 0 is posted
C1_Witness ==
    \E tx \in ledger :
        /\ tx.code \in BatchTemplateCodes
        /\ tx.params.fees.num > 0
        /\ Len(tx.entries) = 16
        /\ LayerTotal(tx.entries, "SETTLED", "DEBIT").num > 0

(***************************************************************************)
(* C2: CREATE_BATCH declares exactly the 16 entries of the table, in the   *)
(* table's order, each with the listed account, direction, layer and       *)
(* units expression.                                                       *)
(***************************************************************************)
C2_Table ==
    << <<P("logical_outgoing_account_id"), "DEBIT",  "ENCUMBERED", << <<"+", "total_spent">> >> >>,
       <<U("LOGICAL_OUTGOING"),            "CREDIT", "ENCUMBERED", << <<"+", "total_spent">> >> >>,
       <<P("logical_outgoing_account_id"), "CREDIT", "PENDING",    << <<"+", "total_spent">> >> >>,
       <<U("LOGICAL_OUTGOING"),            "DEBIT",  "PENDING",    << <<"+", "total_spent">> >> >>,
       <<P("logical_at_rest_account_id"),  "DEBIT",  "SETTLED",
             << <<"+", "total_spent">>, <<"+", "fees">> >> >>,
       <<U("LOGICAL_AT_REST"),             "CREDIT", "SETTLED",
             << <<"+", "total_spent">>, <<"+", "fees">> >> >>,
       <<P("onchain_fee_account_id"),      "DEBIT",  "PENDING",    << <<"+", "fees">> >> >>,
       <<U("ONCHAIN_FEE"),                 "CREDIT", "PENDING",    << <<"+", "fees">> >> >>,
       <<P("onchain_fee_account_id"),      "CREDIT", "ENCUMBERED", << <<"+", "reserved_fees">> >> >>,
       <<U("ONCHAIN_FEE"),                 "DEBIT",  "ENCUMBERED", << <<"+", "reserved_fees">> >> >>,
       <<U("ONCHAIN_UTXO_OUTGOING"),       "DEBIT",  "PENDING",
             << <<"+", "total_in">>, <<"-", "fees">> >> >>,
       <<P("onchain_outgoing_account_id"), "CREDIT", "PENDING",
             << <<"+", "total_in">>, <<"-", "fees">> >> >>,
       <<P("onchain_at_rest_account_id"),  "DEBIT",  "SETTLED",    << <<"+", "total_in">> >> >>,
       <<U("ONCHAIN_UTXO_AT_REST"),        "CREDIT", "SETTLED",    << <<"+", "total_in">> >> >>,
       <<U("ONCHAIN_UTXO_INCOMING"),       "DEBIT",  "ENCUMBERED",
             << <<"+", "total_in">>, <<"-", "fees">>, <<"-", "total_spent">> >> >>,
       <<P("onchain_income_account_id"),   "CREDIT", "ENCUMBERED",
             << <<"+", "total_in">>, <<"-", "fees">>, <<"-", "total_spent">> >> >> >>

C2_Row(e) == <<e.account_id, e.direction, e.layer, e.units>>

C2_CreateBatchMatchesTable ==
    /\ CREATE_BATCH_CODE \in DOMAIN templates =>
           /\ Len(templates[CREATE_BATCH_CODE]) = 16
           /\ \A i \in 1..16 :
                  /\ C2_Row(templates[CREATE_BATCH_CODE][i]) = C2_Table[i]
                  /\ templates[CREATE_BATCH_CODE][i].currency = "BTC"
    /\ \A tx \in ledger :
           tx.code = CREATE_BATCH_CODE =>
               /\ Len(tx.entries) = 16
               /\ \A i \in 1..16 :
                      /\ tx.entries[i].account_id = EvalAccount(C2_Table[i][1], tx.params)
                      /\ tx.entries[i].direction = C2_Table[i][2]
                      /\ tx.entries[i].layer = C2_Table[i][3]
                      /\ DEq(tx.entries[i].units, EvalUnits(C2_Table[i][4], 1, tx.params))

\* a CREATE_BATCH transaction is posted whose parameters tell the units expressions apart
C2_Witness ==
    \E tx \in ledger :
        /\ tx.code = CREATE_BATCH_CODE
        /\ tx.params.total_in.num = 2
        /\ tx.params.total_spent.num = 1
        /\ tx.params.fees.num = 1
        /\ tx.params.reserved_fees.num = 0

(***************************************************************************)
(* C6: for every wallet the current_settled of the balance summary is      *)
(* >= 0; a negative settled balance of the at-rest account and a missing   *)
(* at-rest balance are both reported as 0.                                 *)
(***************************************************************************)
C6_CurrentSettledNonNegative ==
    \A w \in Wallets :
        LET balances == WalletLedgerAccountBalances(ledger, w)
            summary == WalletBalanceSummary(balances)
        IN  /\ summary.current_settled >= 0
            /\ balances.at_rest = None => summary.current_settled = 0
            /\ (IsSome(balances.at_rest) /\ DLess(settled(Unwrap(balances.at_rest)), DZero))
                   => summary.current_settled = 0
            /\ (IsSome(balances.at_rest) /\ ~DLess(settled(Unwrap(balances.at_rest)), DZero))
                   => summary.current_settled = from_btc(settled(Unwrap(balances.at_rest)))

\* one wallet's at-rest account has a negative settled balance, another has no balance row
C6_Witness ==
    \E w1, w2 \in Wallets :
        /\ IsSome(WalletLedgerAccountBalances(ledger, w1).at_rest)
        /\ DLess(settled(Unwrap(WalletLedgerAccountBalances(ledger, w1).at_rest)), DZero)
        /\ WalletLedgerAccountBalances(ledger, w2).at_rest = None

(***************************************************************************)
(* C3: persist_utxo is idempotent per (keychain_id, tx_id, vout): a call   *)
(* for a key that has no row inserts the row with the given value, spent   *)
(* flag and pending id, returns that id, and INCOMING_UTXO is posted under *)
(* it; every call for a key that has a row returns none and changes no row *)
(* and posts nothing; so the ledger holds at most one INCOMING_UTXO per    *)
(* UTXO.                                                                   *)
(***************************************************************************)
C3_IncomingOf(txs, key) ==
    {tx \in txs : tx.code = INCOMING_UTXO_CODE /\ tx.meta.utxo = Some(key)}

C3_PersistStep ==
    last'.op = "persist_utxo" =>
        LET key == Unwrap(last'.key)
        IN  IF IsSome(utxos[key])
            THEN /\ last'.id = None
                 /\ utxos' = utxos
                 /\ ledger' = ledger
            ELSE /\ IsSome(last'.id)
                 /\ IsSome(utxos'[key])
                 /\ Unwrap(utxos'[key]).value = last'.value
                 /\ Unwrap(utxos'[key]).spent = last'.spent
                 /\ Unwrap(utxos'[key]).pending_ledger_tx_id = Unwrap(last'.id)
                 /\ \A k \in UtxoKeys \ {key} : utxos'[k] = utxos[k]
                 /\ \E tx \in C3_IncomingOf(ledger', key) :
                        tx.correlation_id = Unwrap(last'.id)

C3_PersistIdempotent ==
    /\ [](\A key \in UtxoKeys : Cardinality(C3_IncomingOf(ledger, key)) <= 1)
    /\ [][C3_PersistStep]_vars

\* a later persist_utxo of a stored key, with another value and spent flag, returned none
C3_Witness ==
    /\ last.op = "persist_utxo"
    /\ last.id = None
    /\ IsSome(utxos[Unwrap(last.key)])
    /\ Unwrap(utxos[Unwrap(last.key)]).value # last.value
    /\ Unwrap(utxos[Unwrap(last.key)]).spent # last.spent
    /\ Cardinality(C3_IncomingOf(ledger, Unwrap(last.key))) = 1

(***************************************************************************)
(* C4: in every committed state, a UTXO whose spending_batch_id is B       *)
(* belongs to a committed batch B whose inputs include the outpoint, and a *)
(* batch ledger transaction of B is committed for its wallet.              *)
(***************************************************************************)
C4_ReservedImpliesBatchPosted ==
    \A key \in UtxoKeys :
        (IsSome(utxos[key]) /\ IsSome(Unwrap(utxos[key]).spending_batch_id)) =>
            LET B == Unwrap(Unwrap(utxos[key]).spending_batch_id)
            IN  /\ \E b \in batches : b.id = B /\ key \in BatchInputs(b)
                /\ \E tx \in ledger :
                       /\ tx.code \in BatchTemplateCodes
                       /\ tx.meta.batch_id = Some(B)
                       /\ tx.correlation_id = B
                       /\ tx.wallet = Unwrap(utxos[key]).wallet_id

\* one batch is committed with a reserved UTXO while another creator's transaction
\* has reserved a UTXO that the committed state does not show
C4_Witness ==
    /\ \E key \in UtxoKeys :
           IsSome(utxos[key]) /\ IsSome(Unwrap(utxos[key]).spending_batch_id)
    /\ \E c \in Creators :
           /\ txn[c].pc = "built"
           /\ \E key \in txn[c].written :
                  /\ IsSome(Unwrap(txn[c].utxos)[key])
                  /\ IsSome(Unwrap(Unwrap(txn[c].utxos)[key]).spending_batch_id)
                  /\ Unwrap(utxos[key]).spending_batch_id = None

(***************************************************************************)
(* C5: for every committed batch B, the values of the payouts assigned to  *)
(* B plus the fees of B plus the change of B equal the values of the UTXOs *)
(* reserved for B; and for each wallet of B the batch transaction debits   *)
(* the wallet's logical outgoing account on the encumbered layer by the    *)
(* sum of the values of that wallet's payouts in B.                        *)
(***************************************************************************)
C5_Payouts(B, wallets) ==
    {r \in payouts : r.batch_id = Some(B) /\ r.wallet_id \in wallets}

C5_Inputs(B) ==
    {key \in UtxoKeys : IsSome(utxos[key])
                        /\ Unwrap(utxos[key]).spending_batch_id = Some(B)}

C7_ConfirmStep ==
    /\ \A tx \in ledger' \ ledger :
           tx.code = CONFIRMED_UTXO_CODE =>
               \E t \in ledger : t.code = INCOMING_UTXO_CODE /\ t.meta.utxo = tx.meta.utxo
    /\ (last'.op = "mark_utxo_confirmed" /\ ~IsSome(utxos[Unwrap(last'.key)])) =>
           /\ ~last'.ok
           /\ last'.err = "RowNotFound"
           /\ last'.id = None
           /\ utxos' = utxos
           /\ ledger' = ledger

C7_IncomingBeforeConfirmed == [][C7_ConfirmStep]_vars

\* one UTXO is detected and confirmed, and mark_utxo_confirmed of an unknown UTXO failed
C7_Witness ==
    /\ last.op = "mark_utxo_confirmed"
    /\ ~last.ok
    /\ ~IsSome(utxos[Unwrap(last.key)])
    /\ \E tx \in ledger :
           /\ tx.code = CONFIRMED_UTXO_CODE
           /\ \E t \in ledger : t.code = INCOMING_UTXO_CODE /\ t.meta.utxo = tx.meta.utxo

(***************************************************************************)
(* C8: a run of the batch_signing job succeeds only for a batch whose row  *)
(* and batch ledger transaction are committed; run for a batch id that is  *)
(* not committed it fails with BatchNotFound, builds and stores no signing *)
(* session and calls no remote signer.                                     *)
(***************************************************************************)
C8_SigningStep ==
    last'.op = "batch_signing" =>
        LET B == Unwrap(last'.batch_id)
            committed == \E b \in batches : b.id = B
        IN  /\ last'.ok =>
                   /\ committed
                   /\ \E tx \in ledger :
                          tx.code \in BatchTemplateCodes /\ tx.meta.batch_id = Some(B)
            /\ ~committed =>
                   /\ ~last'.ok
                   /\ last'.err = "BatchNotFound"
                   /\ last'.rows = {}
                   /\ signing_sessions' = signing_sessions
                   /\ signer_calls' = signer_calls

C8_CommittedBeforeSigning == [][C8_SigningStep]_vars

\* the job ran for the batch of a transaction that is built but not committed, and failed
C8_Witness ==
    /\ last.op = "batch_signing"
    /\ ~last.ok
    /\ \E c \in Creators :
           /\ txn[c].pc = "built"
           /\ Unwrap(txn[c].batch).id = Unwrap(last.batch_id)

(***************************************************************************)
(* C9: a UTXO gets a spending_batch_id, in a creator's transaction and in  *)
(* the committed state, only if its row is unspent, unreserved and         *)
(* confirmed: spent = false, spending_batch_id null, confirmed_ledger_tx_id*)
(* non-null.                                                               *)
(***************************************************************************)
C9_Reservable(key) ==
    /\ IsSome(utxos[key])
    /\ ~Unwrap(utxos[key]).spent
    /\ Unwrap(utxos[key]).spending_batch_id = None
    /\ IsSome(Unwrap(utxos[key]).confirmed_ledger_tx_id)

C9_ReserveStep ==
    /\ \A c \in Creators :
           (txn[c].pc = "found" /\ txn'[c].pc = "built") =>
               \A key \in txn'[c].written : C9_Reservable(key)
    /\ \A key \in UtxoKeys :
           ( /\ IsSome(utxos'[key])
             /\ IsSome(Unwrap(utxos'[key]).spending_batch_id)
             /\ \/ ~IsSome(utxos[key])
                \/ Unwrap(utxos'[key]).spending_batch_id
                       # Unwrap(utxos[key]).spending_batch_id )
           => C9_Reservable(key)

C9_OnlyReservableReserved == [][C9_ReserveStep]_vars

\* a UTXO is reserved by a committed batch while a spent UTXO of the same keychain
\* is left without a spending_batch_id
C9_Witness ==
    \E k1, k2 \in UtxoKeys :
        /\ k1 # k2
        /\ k1[1] = k2[1]
        /\ IsSome(utxos[k1]) /\ IsSome(Unwrap(utxos[k1]).spending_batch_id)
        /\ IsSome(utxos[k2]) /\ Unwrap(utxos[k2]).spent
        /\ Unwrap(utxos[k2]).spending_batch_id = None

(***************************************************************************)
(* C10: find_reservable_utxos(keychain_ids) returns exactly the rows whose *)
(* keychain is in keychain_ids and whose spent flag is false, each with    *)
(* its current spending_batch_id and confirmed_ledger_tx_id, and changes   *)
(* no row.                                                                 *)
(***************************************************************************)
C10_Expected(ids) ==
    { [ keychain_id    |-> key[1],
        income_address |-> (Unwrap(utxos[key]).kind = "external"),
        outpoint       |-> <<key[2], key[3]>>,
        spending_batch_id      |-> Unwrap(utxos[key]).spending_batch_id,
        confirmed_ledger_tx_id |-> Unwrap(utxos[key]).confirmed_ledger_tx_id ] :
          key \in {k \in UtxoKeys : IsSome(utxos[k]) /\ k[1] \in ids
                                    /\ Unwrap(utxos[k]).spent = FALSE} }

C10_FindStep ==
    \A c \in Creators :
        (txn[c].pc = "idle" /\ txn'[c].pc = "found") =>
            /\ txn'[c].reservable = C10_Expected(txn'[c].keychain_ids)
            /\ utxos' = utxos

C10_FindReservableExact == [][C10_FindStep]_vars

\* the query returned a reserved row and left out a spent row of its keychains and
\* an unspent row of another keychain
C10_Witness ==
    \E c \in Creators :
        /\ txn[c].pc = "found"
        /\ \E u \in txn[c].reservable : IsSome(u.spending_batch_id)
        /\ \E key \in UtxoKeys :
               /\ key[1] \in txn[c].keychain_ids
               /\ IsSome(utxos[key]) /\ Unwrap(utxos[key]).spent
        /\ \E key \in UtxoKeys :
               /\ key[1] \notin txn[c].keychain_ids
               /\ IsSome(utxos[key]) /\ ~Unwrap(utxos[key]).spent

(***************************************************************************)
(* C11: batch creations that run concurrently over the same keychain are   *)
(* serialised by the row locks of the UTXO selection: two open creators    *)
(* never hold the same row, no UTXO is an input of two batches, and a      *)
(* creator selects only UTXOs that no other batch, committed or open, has  *)
(* reserved.                                                               *)
(***************************************************************************)
C11_OpenBatches == {Unwrap(txn[c].batch) : c \in {d \in Creators : txn[d].pc = "built"}}

C11_NoSharedInput ==
    /\ \A c1, c2 \in Creators : c1 # c2 => Locked(c1) \cap Locked(c2) = {}
    /\ \A b1, b2 \in batches \cup C11_OpenBatches :
           b1.id # b2.id => BatchInputs(b1) \cap BatchInputs(b2) = {}

C11_SelectStep ==
    \A c \in Creators :
        (txn[c].pc = "found" /\ txn'[c].pc = "built") =>
            \A key \in BatchInputs(Unwrap(txn'[c].batch)) :
                /\ \A b \in batches \cup C11_OpenBatches : key \notin BatchInputs(b)
                /\ Unwrap(utxos[key]).spending_batch_id = None

C11_SelectionsSerialised == [](C11_NoSharedInput) /\ [][C11_SelectStep]_vars

\* a batch of one group is committed and a creator of the other group has built a
\* batch over other UTXOs of the same keychain
C11_Witness ==
    \E b \in batches, c \in Creators :
        /\ txn[c].pc = "built"
        /\ Unwrap(txn[c].batch).batch_group_id # b.batch_group_id
        /\ BatchInputs(b) # {}
        /\ BatchInputs(Unwrap(txn[c].batch)) # {}
        /\ {k[1] : k \in BatchInputs(b)} = {k[1] : k \in BatchInputs(Unwrap(txn[c].batch))}

(***************************************************************************)
(* C12: concurrent triggers of one batch group are serialised: two open    *)
(* creators never work on the same group, every payout is assigned to at   *)
(* most one batch, and a trigger lists only payouts that no batch,         *)
(* committed or open, holds.                                               *)
(***************************************************************************)
C12_AssignedOnce ==
    /\ \A c1, c2 \in Creators :
           (c1 # c2 /\ IsSome(txn[c1].batch_group_id)) =>
               txn[c1].batch_group_id # txn[c2].batch_group_id
    /\ \A b1, b2 \in batches \cup C11_OpenBatches :
           b1.id # b2.id => b1.payout_ids \cap b2.payout_ids = {}
    /\ \A r \in payouts :
           IsSome(r.batch_id) =>
               \E b \in batches : b.id = Unwrap(r.batch_id) /\ r.id \in b.payout_ids

C12_ListStep ==
    \A c \in Creators :
        (txn[c].pc = "idle" /\ txn'[c].pc = "found") =>
            \A p \in Range(txn'[c].unbatched) :
                /\ \A b \in batches \cup C11_OpenBatches : p.id \notin b.payout_ids
                /\ \A r \in payouts : r.id = p.id => r.batch_id = None

C13_Latest(r) == \A o \in payouts : o.id = r.id => o.version <= r.version

C13_Expected(batch_group_id) ==
    {r \in payouts : /\ r.batch_group_id = batch_group_id
                     /\ C13_Latest(r)
                     /\ r.batch_id = None}

C13_RowOf(p, batch_group_id) ==
    CHOOSE r \in C13_Expected(batch_group_id) : r.id = p.id

C13_ListStep ==
    (last'.op = "list_unbatched") =>
        LET g == Unwrap(last'.batch_group_id)
            list == last'.list
        IN  /\ Range(list) = {Payout(r) : r \in C13_Expected(g)}
            /\ Len(list) = Cardinality(C13_Expected(g))
            /\ \A i, j \in 1..Len(list) :
                   i < j =>
                       LET a == C13_RowOf(list[i], g)
                           b == C13_RowOf(list[j], g)
                       IN  \/ a.priority < b.priority
                           \/ a.priority = b.priority /\ a.created_at <= b.created_at

C13_ListUnbatchedLatest == [][C13_ListStep]_vars

(***************************************************************************)
(* C14: a run of the batch_signing job for a committed batch that has no   *)
(* signing session persists one session per (wallet, keychain, xpub) of    *)
(* the batch's included UTXOs, each with the single event Initialized, so  *)
(* that find_for_batch returns these sessions after the run.               *)
(***************************************************************************)
C14_SessionKey(s) == NewSigningSession(s.batch_id, s.wallet_id, s.keychain_id, s.xpub)

C14_FirstRunStep ==
    ( /\ last'.op = "batch_signing"
      /\ IsSome(find_by_id(batches, Unwrap(last'.batch_id)))
      /\ ~IsSome(find_for_batch(signing_sessions, Unwrap(last'.batch_id))) ) =>
        LET batch == Unwrap(find_by_id(batches, Unwrap(last'.batch_id)))
            after == find_for_batch(signing_sessions', batch.id)
        IN  /\ IsSome(after)
            /\ { C14_SessionKey(Unwrap(after).xpub_sessions[x]) :
                      x \in DOMAIN Unwrap(after).xpub_sessions } = BuildSessions(batch)
            /\ \A x \in DOMAIN Unwrap(after).xpub_sessions :
                   Unwrap(after).xpub_sessions[x].events.events = <<"Initialized">>

C14_FirstRunPersistsSessions == [][C14_FirstRunStep]_vars

(***************************************************************************)
(* C15: a run of the batch_signing job for a batch whose signing sessions  *)
(* are stored reloads exactly these sessions, builds no new session and    *)
(* leaves the stored sessions as they are, so that further deliveries do   *)
(* not change the sessions of the batch.                                   *)
(***************************************************************************)
C15_SessionsOf(sessions, batch_id) == {s \in sessions : s.batch_id = batch_id}

C15_RerunStep ==
    ( /\ last'.op = "batch_signing"
      /\ IsSome(find_for_batch(signing_sessions, Unwrap(last'.batch_id))) ) =>
        LET batch_id == Unwrap(last'.batch_id)
            loaded == Unwrap(find_for_batch(signing_sessions, batch_id)).xpub_sessions
        IN  /\ last'.ok
            /\ last'.rows = {}
            /\ {C14_SessionKey(loaded[x]) : x \in DOMAIN loaded}
                   = {C14_SessionKey(s) : s \in C15_SessionsOf(signing_sessions, batch_id)}
            /\ Cardinality(DOMAIN loaded)
                   = Cardinality(C15_SessionsOf(signing_sessions, batch_id))
            /\ signing_sessions' = signing_sessions

C15_SigningJobIdempotent == [][C15_RerunStep]_vars

\* the job ran for a batch with two stored sessions and built none
C15_Witness ==
    /\ last.op = "batch_signing"
    /\ last.ok
    /\ last.rows = {}
    /\ Cardinality(C15_SessionsOf(signing_sessions, Unwrap(last.batch_id))) = 2

(***************************************************************************)
(* C18: when the remote signer of a session of a batch is still            *)
(* unreachable at the attempt that passes the deadline, the session of     *)
(* that xpub ends with the failure StallTimeout and the batch_signing job  *)
(* returns the error SigningSessionStalled.                                *)
(***************************************************************************)
C18_StallStep ==
    ( /\ last'.op = "batch_signing"
      /\ last'.value = StallAttempts
      /\ IsSome(find_by_id(batches, Unwrap(last'.batch_id))) ) =>
        LET batch == Unwrap(find_by_id(batches, Unwrap(last'.batch_id)))
        IN  \A n \in BuildSessions(batch) :
                SignerOf(n.xpub) = "unreachable" =>
                    /\ ~last'.ok
                    /\ last'.err = "SigningSessionStalled"
                    /\ \E s \in C15_SessionsOf(signing_sessions', batch.id) :
                           /\ s.xpub = n.xpub
                           /\ \E r \in s.events :
                                  /\ r.event = "Failed_StallTimeout"
                                  /\ \A o \in s.events : o.sequence <= r.sequence

C18_StalledSessionSurfaces == [][C18_StallStep]_vars

(***************************************************************************)
(* C19: every run of the batch_signing job for a committed batch calls the *)
(* remote signer once for each session of the batch that is not Completed  *)
(* (the stored sessions, or on the first run the sessions it builds).      *)
(***************************************************************************)
C19_Completed(s) ==
    \E r \in s.events : r.event = "Completed" /\ \A o \in s.events : o.sequence <= r.sequence

C19_AttemptStep ==
    ( /\ last'.op = "batch_signing"
      /\ IsSome(find_by_id(batches, Unwrap(last'.batch_id))) ) =>
        LET batch == Unwrap(find_by_id(batches, Unwrap(last'.batch_id)))
            stored == C15_SessionsOf(signing_sessions, batch.id)
            open == IF IsSome(find_for_batch(signing_sessions, batch.id))
                    THEN Cardinality({s \in stored : ~C19_Completed(s)})
                    ELSE Cardinality(BuildSessions(batch))
        IN  signer_calls' = signer_calls + open

C19_EveryRunAttemptsOpenSessions == [][C19_AttemptStep]_vars

(***************************************************************************)
(* C20: the stored events of every signing session and of every xpub have  *)
(* the sequences 1, 2, ..., n, each once, and a reload (find_for_batch for *)
(* sessions, the lookup of an xpub) yields the events in increasing        *)
(* sequence order.                                                         *)
(***************************************************************************)
C20_NoGaps(rows) == {r.sequence : r \in rows} = 1..Cardinality(rows)

C20_SequencesContiguous ==
    /\ \A s \in signing_sessions : C20_NoGaps(s.events)
    /\ \A x \in XPubIds : C20_NoGaps(xpubs[x])

C20_InOrder(events, rows) ==
    /\ Len(events) = Cardinality(rows)
    /\ \A i \in 1..Len(events) : [ sequence |-> i, event |-> events[i] ] \in rows

C20_LoadStep ==
    /\ (last'.op = "find_for_batch") =>
           \A loaded \in last'.rows :
               \E s \in signing_sessions :
                   /\ C14_SessionKey(s) = C14_SessionKey(loaded)
                   /\ C20_InOrder(loaded.events.events, s.events)
                   /\ loaded.events.last_persisted_sequence = Cardinality(s.events)
    /\ (last'.op = "find_xpub") => C20_InOrder(last'.list, xpubs[Unwrap(last'.id)])

C20_EventLogsOrdered == [](C20_SequencesContiguous) /\ [][C20_LoadStep]_vars

\* a session with three stored events has been reloaded while the xpub has its two
\* initial events and a signer config event stored
C20_Witness ==
    /\ last.op = "find_for_batch"
    /\ \E loaded \in last.rows : Len(loaded.events.events) >= 3
    /\ Cardinality(xpubs["xpub1"]) >= 3

(***************************************************************************)
(* C21: an xpub rehydrated from its stored events has the account id, the  *)
(* key name, the extended public key (hence the fingerprint) and the       *)
(* derivation path it was imported with, and as signer config the config   *)
(* of the last SignerConfigUpdated event (none when there is no such       *)
(* event); setting a signer config changes none of the other values.       *)
(***************************************************************************)
C21_SameIdentity(a, b) ==
    /\ a.account_id = b.account_id
    /\ a.key_name = b.key_name
    /\ a.value = b.value
    /\ XPubValue_id(a.value) = XPubValue_id(b.value)
    /\ a.db_uuid = b.db_uuid

C21_RoundTripStep ==
    /\ (last'.op = "import_xpub" /\ last'.ok) =>
           LET input == Unwrap(last'.input)
               found == XPubs_find(xpubs', Unwrap(last'.id))
           IN  /\ found.ok
               /\ Unwrap(found.entity).account_id = input.account_id
               /\ Unwrap(found.entity).key_name = input.key_name
               /\ Unwrap(found.entity).value = XPubValue(input.original, input.derivation)
               /\ XPubValue_id(Unwrap(found.entity).value) = fingerprint(input.original)
               /\ signing_cfg(Unwrap(found.entity).events.events, 1, None) = None
    /\ (last'.op = "set_signer_config") =>
           LET before == XPubs_find(xpubs, Unwrap(last'.id))
               after == XPubs_find(xpubs', Unwrap(last'.id))
           IN  /\ before.ok /\ after.ok
               /\ C21_SameIdentity(Unwrap(before.entity), Unwrap(after.entity))
               /\ signing_cfg(Unwrap(after.entity).events.events, 1, None)
                      = Some(Unwrap(last'.input).config)

C21_XPubRoundTrip == [][C21_RoundTripStep]_vars

\* an xpub imported with a derivation path has had two different signer configs set
C21_Witness ==
    /\ last.op = "set_signer_config"
    /\ Cardinality(ConfigEvents("xpub1")) = 2
    /\ \E r \in ConfigEvents("xpub1") : r.event.config # Some(Unwrap(last.input).config)
    /\ IsSome(Unwrap(XPubs_find(xpubs, "xpub1").entity).value.derivation)

(***************************************************************************)
(* C22: remote_signing_client uses the config of the most recent           *)
(* SignerConfigUpdated event of the xpub: when the signer accepts the      *)
(* connection the client returned is the one of that config; when the xpub *)
(* has no SignerConfigUpdated event the call succeeds and returns no       *)
(* client.                                                                 *)
(***************************************************************************)
C22_LatestConfig(x) ==
    (CHOOSE r \in ConfigEvents(x) : \A o \in ConfigEvents(x) : o.sequence <= r.sequence)
        .event.config

C22_ClientStep ==
    (last'.op = "remote_signing_client") =>
        LET x == Unwrap(last'.id)
        IN  IF ConfigEvents(x) = {}
            THEN last'.ok /\ last'.client = None
            ELSE IF Unwrap(last'.input).connected
            THEN last'.ok /\ last'.client = C22_LatestConfig(x)
            ELSE ~last'.ok /\ last'.err = "SigningClientError"

C22_ClientOfLatestConfig == [][C22_ClientStep]_vars

\* the client of an xpub whose two signer configs differ has been obtained
C22_Witness ==
    /\ last.op = "remote_signing_client"
    /\ last.ok /\ IsSome(last.client)
    /\ \E r \in ConfigEvents("xpub1") : r.event.config # last.client

(***************************************************************************)
(* C23: when persist_utxo stores a UTXO of value v and INCOMING_UTXO is    *)
(* posted, the balance summary of its wallet has pending_incoming raised   *)
(* by v and current_settled unchanged; when mark_utxo_confirmed succeeds   *)
(* and CONFIRMED_UTXO is posted, pending_incoming is lowered by v and      *)
(* current_settled raised by v, so that after the first confirmation of a  *)
(* UTXO its transactions leave pending_incoming where it was without them. *)
(***************************************************************************)
C23_Summary(txs, w) == WalletBalanceSummary(WalletLedgerAccountBalances(txs, w))

C23_Without(txs, key) == {t \in txs : t.meta.utxo # Some(key)}

C23_BalanceStep ==
    /\ (last'.op = "persist_utxo" /\ IsSome(last'.id)) =>
           LET w == KeychainWallet(Unwrap(last'.key)[1])
           IN  /\ C23_Summary(ledger', w).pending_incoming
                      = C23_Summary(ledger, w).pending_incoming + last'.value
               /\ C23_Summary(ledger', w).current_settled
                      = C23_Summary(ledger, w).current_settled
    /\ (last'.op = "mark_utxo_confirmed" /\ last'.ok) =>
           LET key == Unwrap(last'.key)
               w == KeychainWallet(key[1])
               v == Unwrap(utxos[key]).value
           IN  /\ C23_Summary(ledger', w).pending_incoming
                      = C23_Summary(ledger, w).pending_incoming - v
               /\ C23_Summary(ledger', w).current_settled
                      = C23_Summary(ledger, w).current_settled + v
               /\ ~IsSome(Unwrap(utxos[key]).confirmed_ledger_tx_id) =>
                      C23_Summary(ledger', w).pending_incoming
                          = C23_Summary(C23_Without(ledger', key), w).pending_incoming

C24_NewPayouts == {p \in payouts' : \A o \in payouts : o.id # p.id}

C24_NewBatches == batches' \ batches

\* the ledger without the transactions of a batch and of the queueing of its payouts
C24_Before(txs, batch) ==
    {t \in txs : /\ t.meta.batch_id # Some(batch.id)
                 /\ \A id \in batch.payout_ids : t.meta.payout_id # Some(id)}

C24_QueueStep ==
    \A p \in C24_NewPayouts :
        C23_Summary(ledger', p.wallet_id).encumbered_outgoing
            = C23_Summary(ledger, p.wallet_id).encumbered_outgoing + p.satoshis

C24_EncumbranceReleased ==
    \A batch \in C24_NewBatches : \A w \in DOMAIN batch.wallet_summaries :
        /\ C23_Summary(ledger', w).encumbered_outgoing
               = C23_Summary(C24_Before(ledger', batch), w).encumbered_outgoing
        /\ C23_Summary(ledger', w).encumbered_fees
               = C23_Summary(C24_Before(ledger', batch), w).encumbered_fees

C24_PendingOutgoingRaised ==
    \A batch \in C24_NewBatches : \A w \in DOMAIN batch.wallet_summaries :
        C23_Summary(ledger', w).pending_outgoing
            = C23_Summary(ledger, w).pending_outgoing
                  + batch.wallet_summaries[w].total_spent_sats

C24_PendingFeesRaised ==
    \A batch \in C24_NewBatches : \A w \in DOMAIN batch.wallet_summaries :
        C23_Summary(ledger', w).pending_fees
            = C23_Summary(ledger, w).pending_fees + batch.wallet_summaries[w].fee_sats

C24_BatchStep ==
    /\ C24_QueueStep
    /\ C24_EncumbranceReleased
    /\ C24_PendingOutgoingRaised
    /\ C24_PendingFeesRaised

C25_RegisterStep ==
    /\ (last'.op = "template_init") =>
           LET code == Unwrap(last'.id)
               input == Unwrap(last'.input)
           IN  IF input.db_error # "none"
               THEN ~last'.ok /\ last'.err = input.db_error /\ templates' = templates
               ELSE /\ last'.ok
                    /\ code \in DOMAIN templates'
                    /\ templates'[code] = NewTxTemplate(code)
                    /\ input.existed => templates' = templates
    /\ (last'.op = "onchain_account") =>
           LET id == Unwrap(last'.id)
               input == Unwrap(last'.input)
           IN  IF input.db_error # "none"
               THEN ~last'.ok /\ last'.err = input.db_error /\ accounts' = accounts
               ELSE /\ last'.ok
                    /\ last'.entity = Some(id)
                    /\ \E a \in accounts' : a.id = id
                    /\ input.existed => accounts' = accounts

C25_RegistrationIdempotent == [][C25_RegisterStep]_vars

\* a batch template has been registered again while every system account exists
C25_Witness ==
    /\ last.op = "template_init" /\ last.ok
    /\ Unwrap(last.input).existed
    /\ \A id \in SystemAccountIds : \E a \in accounts : a.id = id

(***************************************************************************)
(* C29: after create_ledger_accounts_for_wallet succeeds for a wallet,     *)
(* each of the five ids it returns (incoming, at_rest, fee, outgoing,      *)
(* dust) is the id of an account of the ledger.                            *)
(***************************************************************************)
C29_ReturnedIds(ids) ==
    {ids.incoming_id, ids.at_rest_id, ids.fee_id, ids.outgoing_id, ids.dust_id}

C29_WalletAccountsStep ==
    (last'.op = "create_ledger_accounts_for_wallet" /\ last'.ok) =>
        \A id \in C29_ReturnedIds(Unwrap(last'.entity)) : \E a \in accounts' : a.id = id

C29_WalletAccountsExist == [][C29_WalletAccountsStep]_vars

(***************************************************************************)
(* C26: in every committed state a UTXO row exists iff the INCOMING_UTXO   *)
(* transaction of its pending_ledger_tx_id is posted, and a row has        *)
(* confirmed_ledger_tx_id set iff the CONFIRMED_UTXO transaction of that   *)
(* id is posted; when the posting fails the row change is rolled back.     *)
(***************************************************************************)
C26_Posted(code, key, id) ==
    \E tx \in ledger : tx.code = code /\ tx.meta.utxo = Some(key) /\ tx.correlation_id = id

C26_RowsMatchLedger ==
    \A key \in UtxoKeys :
        /\ IsSome(utxos[key]) <=>
               \E tx \in ledger : tx.code = INCOMING_UTXO_CODE /\ tx.meta.utxo = Some(key)
        /\ IsSome(utxos[key]) =>
               C26_Posted(INCOMING_UTXO_CODE, key, Unwrap(utxos[key]).pending_ledger_tx_id)
        /\ (IsSome(utxos[key]) /\ IsSome(Unwrap(utxos[key]).confirmed_ledger_tx_id)) <=>
               \E tx \in ledger : tx.code = CONFIRMED_UTXO_CODE /\ tx.meta.utxo = Some(key)
        /\ (IsSome(utxos[key]) /\ IsSome(Unwrap(utxos[key]).confirmed_ledger_tx_id)) =>
               C26_Posted(CONFIRMED_UTXO_CODE, key,
                          Unwrap(Unwrap(utxos[key]).confirmed_ledger_tx_id))

C26_RollbackStep ==
    (last'.op = "rollback") => (utxos' = utxos /\ ledger' = ledger)

C26_RowAndPostingAtomic == [](C26_RowsMatchLedger) /\ [][C26_RollbackStep]_vars

\* the posting for the confirmation of a stored, unconfirmed UTXO has failed while
\* another UTXO is confirmed
C26_Witness ==
    /\ last.op = "rollback"
    /\ IsSome(utxos[Unwrap(last.key)])
    /\ ~IsSome(Unwrap(utxos[Unwrap(last.key)]).confirmed_ledger_tx_id)
    /\ \E key \in UtxoKeys :
           IsSome(utxos[key]) /\ IsSome(Unwrap(utxos[key]).confirmed_ledger_tx_id)

(***************************************************************************)
(* C27: when no selection of reservable UTXOs covers the payouts of the    *)
(* batch group plus the fee, batch construction builds no batch and its    *)
(* abort leaves the committed state as it was: no payout gets a batch_id,  *)
(* no UTXO a spending_batch_id, no batch row is created and no ledger      *)
(* transaction is posted.                                                  *)
(***************************************************************************)
\* the confirmed, unreserved UTXOs the creator found, for the wallets of its payouts
C27_Candidates(c) ==
    { KeyOf(u.keychain_id, u.outpoint) :
          u \in { r \in txn[c].reservable :
                     /\ r.spending_batch_id = None
                     /\ IsSome(r.confirmed_ledger_tx_id)
                     /\ \E p \in Range(txn[c].unbatched) :
                            p.wallet_id = KeychainWallet(r.keychain_id) } }

\* every wallet of the payouts has candidates worth its payouts plus the least fee
C27_CanFund(c) ==
    \A w \in {p.wallet_id : p \in Range(txn[c].unbatched)} :
        LET mine == {p \in Range(txn[c].unbatched) : p.wallet_id = w}
            inputs == {k \in C27_Candidates(c) : KeychainWallet(k[1]) = w}
        IN  /\ inputs # {}
            /\ SumFn([k \in inputs |-> Unwrap(utxos[k]).value])
                   >= SumFn([p \in mine |-> p.satoshis]) + 1

C27_FundingStep ==
    \A c \in Creators :
        /\ (txn[c].pc = "found" /\ ~C27_CanFund(c) /\ txn'[c] # txn[c]) =>
               /\ txn'[c].pc # "built"
               /\ utxos' = utxos /\ payouts' = payouts
               /\ batches' = batches /\ ledger' = ledger
        /\ (txn[c].pc # "idle" /\ txn'[c].pc = "idle" /\ batches' = batches) =>
               /\ utxos' = utxos /\ payouts' = payouts /\ ledger' = ledger

C27_NoBatchUnfunded ==
    /\ \A batch \in batches : \A w \in DOMAIN batch.wallet_summaries :
           batch.wallet_summaries[w].change_sats >= 0
    /\ \A key \in UtxoKeys :
           (IsSome(utxos[key]) /\ IsSome(Unwrap(utxos[key]).spending_batch_id)) =>
               \E batch \in batches : batch.id = Unwrap(Unwrap(utxos[key]).spending_batch_id)

C27_UnfundedBatchAborts == [](C27_NoBatchUnfunded) /\ [][C27_FundingStep]_vars

\* a batch construction over a confirmed UTXO that does not cover the queued
\* payouts has been aborted
C27_Witness ==
    /\ last.op = "abort_batch"
    /\ \E key \in UtxoKeys :
           /\ IsSome(utxos[key]) /\ IsSome(Unwrap(utxos[key]).confirmed_ledger_tx_id)
           /\ ~IsSome(Unwrap(utxos[key]).spending_batch_id)
    /\ payouts # {}
    /\ \A p \in payouts : ~IsSome(p.batch_id)
    /\ batches = {}
    /\ SumFn([p \in payouts |-> p.satoshis]) + 1
           > SumFn([key \in {k \in UtxoKeys : IsSome(utxos[k])} |-> Unwrap(utxos[key]).value])

(***************************************************************************)
(* C28: mark_utxo_confirmed on a stored UTXO sets block_height and spent   *)
(* to the values given, stores a fresh confirmed_ledger_tx_id, and returns *)
(* that id together with the pending_ledger_tx_id, value and address the   *)
(* row has had since persist_utxo; no step, of mark_utxo_confirmed, of     *)
(* reserve_utxos_in_batch or of any other operation, changes the           *)
(* pending_ledger_tx_id, value or address of a row.                        *)
(***************************************************************************)
C28_KnownIds ==
    {tx.correlation_id : tx \in ledger}
        \cup {Unwrap(utxos[k]).pending_ledger_tx_id : k \in {j \in UtxoKeys : IsSome(utxos[j])}}

C28_ConfirmStep ==
    (last'.op = "mark_utxo_confirmed" /\ last'.ok) =>
        LET key == Unwrap(last'.key)
            before == Unwrap(utxos[key])
            after == Unwrap(utxos'[key])
            returned == Unwrap(last'.entity)
        IN  /\ after.block_height = Some(last'.value)
            /\ after.spent = last'.spent
            /\ after.confirmed_ledger_tx_id = Some(returned.confirmed_ledger_tx_id)
            /\ returned.confirmed_ledger_tx_id \notin C28_KnownIds
            /\ before.confirmed_ledger_tx_id # Some(returned.confirmed_ledger_tx_id)
            /\ returned.pending_ledger_tx_id = before.pending_ledger_tx_id
            /\ returned.value = before.value
            /\ returned.address = before.address
            /\ after.spending_batch_id = before.spending_batch_id
            /\ \A k \in UtxoKeys \ {key} : utxos'[k] = utxos[k]

C28_FrameStep ==
    \A key \in UtxoKeys :
        IsSome(utxos[key]) =>
            /\ IsSome(utxos'[key])
            /\ Unwrap(utxos'[key]).pending_ledger_tx_id = Unwrap(utxos[key]).pending_ledger_tx_id
            /\ Unwrap(utxos'[key]).value = Unwrap(utxos[key]).value
            /\ Unwrap(utxos'[key]).address = Unwrap(utxos[key]).address

C28_ConfirmKeepsDetectionData == [][C28_ConfirmStep /\ C28_FrameStep]_vars

\* a UTXO has been confirmed as spent while another one is reserved in a batch
C28_Witness ==
    /\ last.op = "mark_utxo_confirmed" /\ last.ok /\ last.spent
    /\ Unwrap(last.entity).pending_ledger_tx_id
           = Unwrap(utxos[Unwrap(last.key)]).pending_ledger_tx_id
    /\ \E key \in UtxoKeys \ {Unwrap(last.key)} :
           IsSome(utxos[key]) /\ IsSome(Unwrap(utxos[key]).spending_batch_id)

(***************************************************************************)
(* C30: importing a string that is not an extended public key fails with   *)
(* XPubParseError, importing a key of the wrong depth fails with           *)
(* XPubDepthMismatch, and neither stores any xpub event; importing an      *)
(* extended public key under an account succeeds, returns the id of the    *)
(* xpub and stores its events for that account.                            *)
(***************************************************************************)
C30_ImportStep ==
    (last'.op = "import_xpub") =>
        LET input == Unwrap(last'.input)
        IN  CASE input.original = "not-an-xpub" ->
                     ~last'.ok /\ last'.err = "XPubParseError" /\ last'.id = None
                     /\ xpubs' = xpubs
              [] input.original = "xpub-at-depth-5" ->
                     ~last'.ok /\ last'.err = "XPubDepthMismatch" /\ last'.id = None
                     /\ xpubs' = xpubs
              [] OTHER ->
                     /\ last'.ok
                     /\ last'.id = Some(input.original)
                     /\ xpubs'[input.original] # {}
                     /\ \A r \in xpubs'[input.original] :
                            r.event.type = "xpub_initialized" =>
                                Unwrap(r.event.value).account_id = input.account_id
                     /\ \A x \in XPubIds \ {input.original} : xpubs'[x] = xpubs[x]

C31_AccountStep ==
    (last'.op = "account_create") =>
        LET id == Unwrap(last'.id)
            key == Unwrap(last'.entity)
        IN  /\ \E a \in admin'.accounts \ admin.accounts : a.id = id
            /\ key.account_id = id
            /\ key \in admin'.account_keys \ admin.account_keys
            /\ \E j \in admin'.journals : j.id = id

C31_BootstrapStep ==
    (last'.op = "bootstrap") =>
        LET key == Unwrap(last'.entity)
        IN  /\ key \in admin'.keys \ admin.keys
            /\ \A k \in admin.keys : k.id # key.id /\ k.key # key.key

C31_AccountHasJournalAndKey == [][C31_AccountStep /\ C31_BootstrapStep]_vars

(***************************************************************************)
(* C32: after a successful Ledger::init every template that a later        *)
(* operation posts is registered: INCOMING_UTXO, CONFIRMED_UTXO,           *)
(* QUEUED_PAYOUT and the batch templates CREATE_BATCH and BATCH_CREATED.   *)
(***************************************************************************)
C32_InitRegistersPostedTemplates ==
    (last.op = "Ledger::init" /\ last.ok) =>
        \A code \in AllTemplateCodes : code \in DOMAIN templates

(***************************************************************************)
(* C33: under the conservation law of a batch (total_in = total_utxo_in,   *)
(* reserved_fees = encumbered_fees, equal fees, total_spent =               *)
(* total_utxo_in - change - fees) CREATE_BATCH and BATCH_CREATED post,     *)
(* entry by entry, the same account, direction, layer and units.           *)
(***************************************************************************)
\* the parameters of the other template that the law relates to params
C33_Related(code, params) ==
    LET ids == [ logical_outgoing_account_id |-> params.logical_outgoing_account_id,
                 logical_at_rest_account_id  |-> params.logical_at_rest_account_id,
                 onchain_fee_account_id      |-> params.onchain_fee_account_id,
                 onchain_outgoing_account_id |-> params.onchain_outgoing_account_id,
                 onchain_income_account_id   |-> params.onchain_income_account_id,
                 onchain_at_rest_account_id  |-> params.onchain_at_rest_account_id,
                 fees |-> params.fees, correlation_id |-> params.correlation_id ]
    IN  IF code = CREATE_BATCH_CODE
        THEN ids @@ [ total_utxo_in |-> params.total_in,
                      change |-> DSub(DSub(params.total_in, params.fees), params.total_spent),
                      encumbered_fees |-> params.reserved_fees ]
        ELSE ids @@ [ total_in |-> params.total_utxo_in,
                      total_spent |-> DSub(DSub(params.total_utxo_in, params.change),
                                           params.fees),
                      reserved_fees |-> params.encumbered_fees ]

C33_Other(code) == IF code = CREATE_BATCH_CODE THEN BATCH_CREATED_CODE ELSE CREATE_BATCH_CODE

C33_SameEntry(a, b) ==
    /\ a.account_id = b.account_id
    /\ a.direction = b.direction
    /\ a.layer = b.layer
    /\ a.currency = b.currency
    /\ DEq(a.units, b.units)

C33_TemplatesEquivalent ==
    \A tx \in ledger :
        tx.code \in BatchTemplateCodes =>
            LET other == EvalEntries(templates[C33_Other(tx.code)],
                                     C33_Related(tx.code, tx.params))
            IN  /\ Len(other) = Len(tx.entries)
                /\ \A i \in 1..Len(other) : C33_SameEntry(tx.entries[i], other[i])

\* a CREATE_BATCH posting with fees and change
C33_Witness ==
    \E tx \in ledger :
        /\ tx.code = CREATE_BATCH_CODE
        /\ tx.params.fees = to_btc(1)
        /\ tx.params.total_in = to_btc(2)
        /\ tx.params.total_spent = to_btc(0)

(***************************************************************************)
(* C34: once the spending_batch_id of a UTXO is set to a batch it is never *)
(* changed to another batch and never cleared, whatever detections,        *)
(* confirmations and batch constructions follow.                           *)
(***************************************************************************)
C34_Reserved(table, key) ==
    IF IsSome(table[key]) THEN Unwrap(table[key]).spending_batch_id ELSE None

C34_ReservationStep ==
    \A key \in UtxoKeys :
        IsSome(C34_Reserved(utxos, key)) =>
            /\ C34_Reserved(utxos', key) = C34_Reserved(utxos, key)
            /\ \A c \in Creators :
                   IsSome(txn'[c].utxos) =>
                       C34_Reserved(Unwrap(txn'[c].utxos), key) = C34_Reserved(utxos, key)

C35_Assigned(id) == \E r \in payouts : r.id = id /\ IsSome(r.batch_id)

C35_ListStep ==
    (last'.op = "list_unbatched") =>
        \A p \in Range(last'.list) : ~C35_Assigned(p.id)

C35_AssignedNeverListed == [][C35_ListStep]_vars

(***************************************************************************)
(* C36: a UTXO is confirmed at most once: a repeated mark_utxo_confirmed   *)
(* for the same (keychain, outpoint) does not replace its                  *)
(* confirmed_ledger_tx_id, and at most one CONFIRMED_UTXO transaction is   *)
(* posted per UTXO.                                                        *)
(***************************************************************************)
C36_ConfirmedTxs(txs, key) ==
    {tx \in txs : tx.code = CONFIRMED_UTXO_CODE /\ tx.meta.utxo = Some(key)}

C36_RepeatStep ==
    \A key \in UtxoKeys :
        /\ ( /\ IsSome(utxos[key])
             /\ IsSome(Unwrap(utxos[key]).confirmed_ledger_tx_id) ) =>
               Unwrap(utxos'[key]).confirmed_ledger_tx_id
                   = Unwrap(utxos[key]).confirmed_ledger_tx_id
        /\ Cardinality(C36_ConfirmedTxs(ledger', key)) <= 1

C36_ConfirmedAtMostOnce == [][C36_RepeatStep]_vars

(***************************************************************************)
(* C37: in every reachable state and for every UTXO row, block_height is   *)
(* set iff confirmed_ledger_tx_id is set: a row inserted by persist_utxo   *)
(* has both unset, mark_utxo_confirmed sets both together, and no          *)
(* operation clears either of them.                                        *)
(***************************************************************************)
C37_BothOrNeither ==
    \A key \in UtxoKeys :
        IsSome(utxos[key]) =>
            (IsSome(Unwrap(utxos[key]).block_height)
                 <=> IsSome(Unwrap(utxos[key]).confirmed_ledger_tx_id))

C37_RowStep ==
    \A key \in UtxoKeys :
        /\ (~IsSome(utxos[key]) /\ IsSome(utxos'[key])) =>
               /\ Unwrap(utxos'[key]).block_height = None
               /\ Unwrap(utxos'[key]).confirmed_ledger_tx_id = None
        /\ IsSome(utxos[key]) =>
               /\ IsSome(utxos'[key])
               /\ IsSome(Unwrap(utxos[key]).block_height) =>
                      IsSome(Unwrap(utxos'[key]).block_height)
               /\ IsSome(Unwrap(utxos[key]).confirmed_ledger_tx_id) =>
                      IsSome(Unwrap(utxos'[key]).confirmed_ledger_tx_id)
        /\ (last'.op = "mark_utxo_confirmed" /\ last'.ok /\ last'.key = Some(key)) =>
               /\ Unwrap(utxos'[key]).block_height = Some(last'.value)
               /\ Unwrap(utxos'[key]).confirmed_ledger_tx_id = last'.id
               /\ IsSome(last'.id)

C37_HeightIffConfirmed == [](C37_BothOrNeither) /\ [][C37_RowStep]_vars

\* one UTXO is confirmed and reserved by a batch, another is detected and not
\* confirmed
C37_Witness ==
    \E k1, k2 \in UtxoKeys :
        /\ IsSome(utxos[k1]) /\ IsSome(utxos[k2])
        /\ IsSome(Unwrap(utxos[k1]).block_height)
        /\ IsSome(Unwrap(utxos[k1]).confirmed_ledger_tx_id)
        /\ IsSome(Unwrap(utxos[k1]).spending_batch_id)
        /\ Unwrap(utxos[k2]).block_height = None
        /\ Unwrap(utxos[k2]).confirmed_ledger_tx_id = None

(***************************************************************************)
(* C38: reserve_utxos_in_batch(batch_id, list) sets spending_batch_id =    *)
(* batch_id on every listed row and on no other row, and changes no other  *)
(* column of any row.                                                      *)
(***************************************************************************)
C38_ReserveStep ==
    \A c \in Creators :
        (txn[c].pc = "found" /\ txn'[c].pc = "built") =>
            LET batch == Unwrap(txn'[c].batch)
                after == Unwrap(txn'[c].utxos)
            IN  \A key \in UtxoKeys :
                    IF key \in BatchInputs(batch) /\ IsSome(utxos[key])
                    THEN after[key] = Some([Unwrap(utxos[key]) EXCEPT
                                                !.spending_batch_id = Some(batch.id)])
                    ELSE after[key] = utxos[key]

C38_CommitStep ==
    \A c \in Creators :
        (txn[c].pc = "built" /\ txn'[c].pc = "idle" /\ batches' # batches) =>
            LET batch == Unwrap(txn[c].batch)
            IN  \A key \in UtxoKeys :
                    IF key \in BatchInputs(batch)
                    THEN utxos'[key] = Some([Unwrap(utxos[key]) EXCEPT
                                                 !.spending_batch_id = Some(batch.id)])
                    ELSE utxos'[key] = utxos[key]

C39_Stored(batch_id) ==
    {s \in signing_sessions : s.batch_id = batch_id /\ s.events # {}}

C39_FindStep ==
    (last'.op = "find_for_batch") =>
        LET stored == C39_Stored(Unwrap(last'.batch_id))
        IN  /\ last'.ok <=> stored # {}
            /\ Cardinality(last'.rows) = Cardinality(stored)
            /\ {C14_SessionKey(s) : s \in last'.rows} = {C14_SessionKey(s) : s \in stored}

C39_FindReturnsEverySession == [][C39_FindStep]_vars

(***************************************************************************)
(* C40: an AccountXPub is rehydrated only from an event log that holds its *)
(* initialising events: a log without XpubInitialized or without any       *)
(* XpubNameUpdated gives EntityError and no entity; with several           *)
(* XpubNameUpdated events the key name is that of the last one;            *)
(* SignerConfigUpdated events never change the account id, the key name or *)
(* the key value; set_signer_config only appends one event.                *)
(***************************************************************************)
C40_Indexes(log, type) == {i \in 1..Len(log) : log[i].type = type}

C40_LastOf(log, type) ==
    log[CHOOSE i \in C40_Indexes(log, type) : \A j \in C40_Indexes(log, type) : j <= i]

C40_IsSignerEvent(event) == event.type = "signer_config_updated"

C40_IsOtherEvent(event) == ~C40_IsSignerEvent(event)

C40_TryFromStep ==
    (last'.op = "try_from") =>
        LET log == last'.list
            initialised == /\ C40_Indexes(log, "xpub_initialized") # {}
                           /\ C40_Indexes(log, "xpub_name_updated") # {}
        IN  /\ last'.ok <=> initialised
            /\ ~initialised => last'.err = "EntityError" /\ last'.entity = None
            /\ initialised =>
                   LET e == Unwrap(last'.entity)
                       init == Unwrap(C40_LastOf(log, "xpub_initialized").value)
                       plain == SelectSeq(log, C40_IsOtherEvent)
                       without == Unwrap(AccountXPub_try_from(
                                             EntityEvents(Len(plain), plain)).entity)
                   IN  /\ e.key_name = Unwrap(C40_LastOf(log, "xpub_name_updated").name)
                       /\ e.account_id = init.account_id
                       /\ e.value = XPubValue(init.xpub, init.derivation_path)
                       /\ e.events.events = log
                       /\ e.account_id = without.account_id
                       /\ e.key_name = without.key_name
                       /\ e.value = without.value

C40_SetSignerConfigStep ==
    (last'.op = "set_signer_config") =>
        LET before == Unwrap(last.entity)
            after == Unwrap(last'.entity)
        IN  /\ Len(after.events.events) = Len(before.events.events) + 1
            /\ SubSeq(after.events.events, 1, Len(before.events.events)) = before.events.events
            /\ after.events.events[Len(after.events.events)] =
                   XPubEvent("signer_config_updated", None,
                             Some(Unwrap(last'.input).config), None)
            /\ after.events.last_persisted_sequence = before.events.last_persisted_sequence
            /\ after.account_id = before.account_id
            /\ after.key_name = before.key_name
            /\ after.value = before.value

C40_RehydratedAfterConfigStep ==
    (last.op = "set_signer_config" /\ last'.op = "try_from") =>
        LET before == Unwrap(last.entity)
            after == Unwrap(last'.entity)
        IN  /\ last'.ok
            /\ after.account_id = before.account_id
            /\ after.key_name = before.key_name
            /\ after.value = before.value

C40_RehydrationNeedsInitialEvents ==
    [][C40_TryFromStep /\ C40_SetSignerConfigStep /\ C40_RehydratedAfterConfigStep]_vars

\* a log with two XpubNameUpdated events of different names and a
\* SignerConfigUpdated event was rehydrated, after set_signer_config
C40_Witness ==
    /\ last.op = "try_from"
    /\ last.ok
    /\ Len(last.list) = MaxEvents + 1
    /\ Cardinality({last.list[i].name : i \in C40_Indexes(last.list, "xpub_name_updated")}) = 2
    /\ Unwrap(last.entity).key_name = "key2"
    /\ last.list[2].type = "xpub_name_updated"
    /\ last.list[2].name = Some("key1")
    /\ C40_IsSignerEvent(last.list[Len(last.list)])

====
